---- MODULE Spec2Model ----
(***************************************************************************)
(* Booking bot: the booking transaction manager (services/booking_service) *)
(* and the repository operations it shares the SQLite store with           *)
(* (database/repositories/booking_repository), with the handlers that call *)
(* them (handlers/booking_handlers, handlers/admin_handlers).              *)
(* After a commit the service appends to booking_history                   *)
(* (database/repositories/booking_history_repository) and registers or     *)
(* removes the booking's jobs in the scheduler; restore_reminders rebuilds  *)
(* the jobs when the process starts (main.start_bot).                      *)
(* The jobs at run time are _send_reminder and _send_feedback_request and  *)
(* the periodic jobs of main.setup_reminder_jobs (services/                *)
(* reminder_service); database/db_retry is the retry decorator, with the   *)
(* create_booking of services/booking_service_fixed that it wraps.         *)
(*                                                                         *)
(* Time.  A time of day "HH:MM" is its minute of the day, a date is a day  *)
(* number, and an instant is date * 1440 + minute (Europe/Moscow has a     *)
(* fixed offset, so local wall-clock differences are elapsed minutes).     *)
(***************************************************************************)
EXTENDS Integers, FiniteSets, Sequences, TLC

VARIABLES
    bookings,   \* table bookings: set of rows
    blocked,    \* table blocked_slots: set of [date, time]
    nextId,     \* AUTOINCREMENT counter of bookings.id
    lock,       \* the call holding SQLite's write (RESERVED) lock, 0 when free
    calls,      \* in-flight calls: call slot -> its arguments, locals and position
    confirm_kb, \* cancel-confirmation keyboards on screen: set of booking ids
    now,        \* the clock, now_local(), an instant in minutes
    probe,      \* the last alert shown, or the last check applied in SpecCheck
    history,    \* table booking_history: sequence of entries, oldest first
    jobs,       \* the scheduler's job store: set of [id, run_date]
    services,   \* table services: set of [id, duration_minutes, is_active, display_order]
    retry,      \* the db_retry wrapper around one call: its loop variables and position
    sent,       \* bot.send_message calls of the jobs: sequence of [kind, booking_id, delivered]
    executor    \* the scheduler's executor: submitted runs waiting, the run in the worker, runs given up

vars == <<bookings, blocked, nextId, lock, calls, confirm_kb, now, probe,
          history, jobs, services, retry, sent, executor>>

----------------------------------------------------------------------------
(* Program constants (config.py) *)

MAX_BOOKINGS_PER_USER == 3
CANCELLATION_HOURS == 24
WORK_HOURS_START == 7
WORK_HOURS_END == 22
CALLBACK_MESSAGE_TTL_HOURS == 48

(* Result codes of create_booking, the ERROR_ constants of config.py *)
ERROR_SUCCESS == "success"
ERROR_NO_SERVICES == "no_services"
ERROR_SERVICE_UNAVAILABLE == "service_not_available"
ERROR_UNKNOWN == "unknown_error"
ERROR_LIMIT_EXCEEDED == "limit_exceeded"
ERROR_SLOT_TAKEN == "slot_taken"

----------------------------------------------------------------------------
(* Time arithmetic *)

MinutesPerDay == 24 * 60

\* datetime.strptime(time_str, "%H:%M") for the string "hh:mm"
strptime_HM(hh, mm) == hh * 60 + mm

\* TIMEZONE.localize(strptime(f"{date_str} {time_str}", "%Y-%m-%d %H:%M"))
localize(date, time) == date * MinutesPerDay + time

\* the date of an instant, as date('now') / now.date() give it
date_of(instant) == instant \div MinutesPerDay

----------------------------------------------------------------------------
(* SlotAvailabilityEngine: BookingService._check_slot_availability_in_transaction *)

\* `booking_duration or 60`: a NULL or zero duration counts as 60 minutes
duration_or_60(dur) == IF dur = 0 THEN 60 ELSE dur

\* A plausible slip of the overlap test: closed instead of half-open intervals.
intervals_conflict_closed(start_time, end_time, booking_start, booking_end) ==
    start_time <= booking_end /\ end_time >= booking_start

\* `start_time < booking_end and end_time > booking_start`
intervals_conflict(start_time, end_time, booking_start, booking_end) ==
    start_time < booking_end /\ end_time > booking_start

\* The loop over `existing`: some booking of the date conflicts with the candidate.
\* A plausible slip, the check of booking_service_fixed.py: only a booking
\* with the same start conflicts.
booking_conflict_same_start(rows, date, time, duration_minutes) ==
    \E b \in rows : b.date = date /\ b.time = time

booking_conflict(rows, date, time, duration_minutes) ==
    \E b \in rows :
        /\ b.date = date
        /\ intervals_conflict(time, time + duration_minutes,
                              b.time, b.time + duration_or_60(b.dur))

\* The loop over `blocked`: `blocked_time == time_str` (equal start times only).
block_conflict(blocks, date, time) ==
    \E s \in blocks : s.date = date /\ s.time = time

\* True when the slot is free.  No comparison with WORK_HOURS_END is made.
\* A plausible slip: only the blocked slots are checked.
check_blocked_slots_only(rows, blocks, date, time, duration_minutes) ==
    ~block_conflict(blocks, date, time)

check_slot_availability_in_transaction(rows, blocks, date, time, duration_minutes) ==
    /\ ~booking_conflict(rows, date, time, duration_minutes)
    /\ ~block_conflict(blocks, date, time)

----------------------------------------------------------------------------
(* BookingRepository.can_cancel_booking and the alert of cancel_booking_callback *)

\* (booking_dt - now).total_seconds() / 3600, kept in minutes (hours * 60)
minutes_until(date, time, clock) == localize(date, time) - clock

\* A plausible slip: a strict comparison, so that exactly H hours is refused.
can_cancel_allowed_strict(date, time, clock) ==
    minutes_until(date, time, clock) > CANCELLATION_HOURS * 60

\* `hours_until >= CANCELLATION_HOURS`
can_cancel_allowed(date, time, clock) ==
    minutes_until(date, time, clock) >= CANCELLATION_HOURS * 60

\* can_cancel_booking: (allowed, hours_until), hours_until in minutes
can_cancel_booking(date, time, clock) ==
    [allowed |-> can_cancel_allowed(date, time, clock),
     minutes |-> minutes_until(date, time, clock)]

\* f"{hours_until:.1f}": the hours rounded to one decimal, as a number of
\* tenths of an hour (6 minutes).  Ties (a remainder of exactly 3 minutes)
\* depend on the binary value of the float; the clock of the model moves in
\* even minutes, so no tie is ever formatted.
format_1f(minutes) ==
    IF minutes >= 0 THEN (minutes + 3) \div 6 ELSE -((-minutes + 3) \div 6)

----------------------------------------------------------------------------
(* Bounds of the model *)

MaxInFlight == 2        \* Spec, SpecBlock: calls in flight at once
MaxBookingId == 3       \* Spec, SpecBlock: creates start only while nextId <= MaxBookingId
MaxRaceCalls == 3       \* the concurrent create_booking calls of SpecRace
MaxLimitId == 4         \* SpecLimit: creates start only while nextId <= MaxLimitId

----------------------------------------------------------------------------
(* Data *)

\* Service catalog (ServiceRepository): two active services.
Services ==
    {[id |-> 1, duration_minutes |-> 60, is_active |-> TRUE, display_order |-> 1],
     [id |-> 2, duration_minutes |-> 90, is_active |-> TRUE, display_order |-> 2]}

\* ServiceRepository.get_service_by_id: the rows of services with that id
get_service_by_id(service_id) == {s \in services : s.id = service_id}

\* ServiceRepository.get_all_services(active_only=True)
get_all_services_active == {s \in services : s.is_active}

\* BookingService._get_default_service: services[0], the first active service
\* in display order; the empty set when there is none.
get_default_service ==
    {s \in get_all_services_active :
        \A t \in get_all_services_active : s.display_order <= t.display_order}

\* service_id of a call that passes no service id (None)
NoServiceId == 0

\* callback.from_user.username or first_name or a fixed fallback: never empty
username_of(user_id) == <<"name", user_id>>

\* A row of bookings
Row(id, date, time, user_id, service_id, duration) ==
    [id |-> id, date |-> date, time |-> time, user |-> user_id,
     username |-> username_of(user_id), service |-> service_id, dur |-> duration,
     created_at |-> 0]

\* A call slot: operation, position, arguments, locals and result.
\*   sel     what the call's SELECT returned (rows)
\*   cancelled_users  the list block_slot_with_notification returns
\*   removed history: the rows its DELETE or UPDATE touched, as they were
\*   clock   history: the clock when it wrote
\*   old_date, old_time  reschedule_booking's old_date_str and old_time_str
\*   service_arg  create_booking's service_id as the caller passed it
Call(op, pc, user_id, date, time, service_id, duration, bid) ==
    [op |-> op, pc |-> pc, user |-> user_id, date |-> date, time |-> time,
     service |-> service_id, dur |-> duration, bid |-> bid,
     sel |-> {}, cancelled_users |-> {}, removed |-> {}, clock |-> 0,
     old_date |-> 0, old_time |-> 0, service_arg |-> 0, res |-> "none"]

NoCall == Call("idle", "idle", 0, 0, 0, 0, 0, 0)

idle(p) == calls[p].op = "idle"
at(p, op, pc) == calls[p].op = op /\ calls[p].pc = pc

\* The call moves to pc with some fields changed.
goto(p, changes) == calls' = [calls EXCEPT ![p] = changes @@ @]

----------------------------------------------------------------------------
(* SQLite write lock *)

\* A plausible slip: a plain (deferred) BEGIN takes no write lock.
begin_deferred(p) == lock' = lock

\* db.execute("BEGIN IMMEDIATE"): waits for the write lock and takes it
begin_immediate(p) == lock = 0 /\ lock' = p

\* commit() / rollback() of the lock holder
release(p) == lock' = (IF lock = p THEN 0 ELSE lock)

\* A write outside BEGIN IMMEDIATE (implicit transaction, committed in the same
\* step of the model): waits until no other connection holds the lock.
write_allowed == lock = 0

\* `SELECT date('now')`: the UTC date; the clock is Moscow time (UTC+3)
MOSCOW_UTC_OFFSET == 3 * 60
sqlite_date_now == date_of(now - MOSCOW_UTC_OFFSET)

----------------------------------------------------------------------------
(* BookingService.create_booking *)

\* A plausible slip: an inactive service is accepted when its id is given.
service_resolved_ignoring_active(service_id) ==
    IF service_id = NoServiceId THEN get_default_service
    ELSE get_service_by_id(service_id)

\* Lines 83-103: the service the call books, the empty set when there is none.
service_resolved(service_id) ==
    IF service_id = NoServiceId THEN get_default_service
    ELSE {s \in get_service_by_id(service_id) : s.is_active}

\* Lines 83-105: the service is resolved (outside the transaction): no_services
\* or service_not_available returns at once; otherwise the connection is opened.
create_booking_call(p, user_id, date, time, service_id) ==
    /\ idle(p)
    /\ LET found == service_resolved(service_id) IN
       IF found = {}
       THEN calls' = [calls EXCEPT ![p] =
                [Call("create", "done", user_id, date, time, service_id, 0, 0)
                    EXCEPT !.service_arg = service_id,
                           !.res = IF service_id = NoServiceId
                                   THEN ERROR_NO_SERVICES
                                   ELSE ERROR_SERVICE_UNAVAILABLE]]
       ELSE LET service == CHOOSE s \in found : TRUE IN
            calls' = [calls EXCEPT ![p] =
                [Call("create", "begin", user_id, date, time, service.id,
                      service.duration_minutes, 0)
                    EXCEPT !.service_arg = service_id]]
    /\ UNCHANGED <<bookings, blocked, nextId, lock, confirm_kb, now, probe, history, jobs, services, retry, sent, executor>>

\* Line 106
create_booking_begin(p) ==
    /\ at(p, "create", "begin")
    /\ begin_immediate(p)
    /\ goto(p, [pc |-> "check"])
    /\ UNCHANGED <<bookings, blocked, nextId, confirm_kb, now, probe, history, jobs, services, retry, sent, executor>>

\* Line 106 while another connection holds the write lock: SQLite's busy
\* timeout (5 s by default) runs out and BEGIN IMMEDIATE raises
\* OperationalError ("database is locked").  The statement stands before the
\* try of line 108, so the exception leaves create_booking.
create_booking_begin_locked(p) ==
    /\ at(p, "create", "begin")
    /\ lock # 0
    /\ goto(p, [pc |-> "raised", res |-> "OperationalError"])
    /\ UNCHANGED <<bookings, blocked, nextId, lock, confirm_kb, now, probe,
                   history, jobs, services, retry, sent, executor>>

\* "SELECT COUNT(*) FROM bookings WHERE user_id=? AND date >= date('now')"
user_count(user_id) ==
    Cardinality({b \in bookings : b.user = user_id /\ b.date >= sqlite_date_now})

\* Lines 109-129: limit check, then availability check; rollback on refusal.
create_booking_check(p) ==
    /\ at(p, "create", "check")
    /\ LET c == calls[p] IN
       IF user_count(c.user) >= MAX_BOOKINGS_PER_USER
       THEN release(p) /\ goto(p, [pc |-> "done", res |-> ERROR_LIMIT_EXCEEDED])
       ELSE IF ~check_slot_availability_in_transaction(
                   bookings, blocked, c.date, c.time, c.dur)
       THEN release(p) /\ goto(p, [pc |-> "done", res |-> ERROR_SLOT_TAKEN])
       ELSE UNCHANGED lock /\ goto(p, [pc |-> "insert"])
    /\ UNCHANGED <<bookings, blocked, nextId, confirm_kb, now, probe, history, jobs, services, retry, sent, executor>>

\* UNIQUE(date, time) of bookings (idx_user_active_bookings is implied by it)
unique_date_time(rows, date, time) ==
    ~\E b \in rows : b.date = date /\ b.time = time

\* A plausible slip: a plain INTEGER PRIMARY KEY, whose next id is one more
\* than the largest id in the table.
max_id_plus_one(rows, counter) ==
    IF rows = {} THEN 1
    ELSE 1 + (CHOOSE i \in {b.id : b \in rows} : \A b \in rows : b.id <= i)

\* id INTEGER PRIMARY KEY AUTOINCREMENT: the id of a new row is one more than
\* the largest id the table ever held (sqlite_sequence), here the counter.
autoincrement_id(rows, counter) == counter

\* Lines 131-147 and 170-173: INSERT and commit; IntegrityError -> slot_taken.
create_booking_insert(p) ==
    /\ at(p, "create", "insert")
    /\ LET c == calls[p]
           booking_id == autoincrement_id(bookings, nextId)
       IN
       IF unique_date_time(bookings, c.date, c.time)
       THEN /\ bookings' = bookings \cup
                  {[Row(booking_id, c.date, c.time, c.user, c.service, c.dur)
                       EXCEPT !.created_at = now]}
            /\ nextId' = nextId + 1
            /\ goto(p, [pc |-> "done", res |-> ERROR_SUCCESS, bid |-> booking_id])
       ELSE /\ UNCHANGED <<bookings, nextId>>
            /\ goto(p, [pc |-> "done", res |-> ERROR_SLOT_TAKEN])
    /\ release(p)
    /\ UNCHANGED <<blocked, confirm_kb, now, probe, history, jobs, services, retry, sent, executor>>

----------------------------------------------------------------------------
(* BookingService.reschedule_booking *)

\* The ids of the rows of a table
ids(rows) == {b.id : b \in rows}

\* A plausible slip: the row being moved is left out of the rows checked
\* ("... WHERE date=? AND id != ?").
existing_without_moved(rows, booking_id) == {b \in rows : b.id # booking_id}

\* What _check_slot_availability_in_transaction reads when reschedule_booking
\* calls it: "SELECT time, duration_minutes FROM bookings WHERE date=?" has no
\* condition on the id, so the row being moved is among the rows checked.
existing_for_reschedule(rows, booking_id) == rows

\* A plausible slip: the lookup is by id alone.
select_by_id_any_user(rows, booking_id, user_id) == {b \in rows : b.id = booking_id}

\* "SELECT ... FROM bookings WHERE id=? AND user_id=?"
select_by_id(rows, booking_id, user_id) ==
    {b \in rows : b.id = booking_id /\ b.user = user_id}

\* execute_reschedule lines 779-796: the row is read by id and user, and
\* reschedule_booking is called with the date and time read; line 253: the
\* connection is opened.
reschedule_booking_call(p, user_id, booking_id, new_date, new_time) ==
    /\ idle(p)
    /\ \E old_booking \in select_by_id(bookings, booking_id, user_id) :
          calls' = [calls EXCEPT ![p] =
              [Call("reschedule", "begin", user_id, new_date, new_time, 0, 0,
                    booking_id)
                  EXCEPT !.old_date = old_booking.date,
                         !.old_time = old_booking.time]]
    /\ UNCHANGED <<bookings, blocked, nextId, lock, confirm_kb, now, probe, history, jobs, services, retry, sent, executor>>

\* reschedule_booking lines 229-253 called with arguments of any kind: the
\* booking id need not exist or belong to user_id.
reschedule_booking(p, booking_id, old_date, old_time, new_date, new_time, user_id) ==
    /\ idle(p)
    /\ calls' = [calls EXCEPT ![p] =
           [Call("reschedule", "begin", user_id, new_date, new_time, 0, 0, booking_id)
               EXCEPT !.old_date = old_date, !.old_time = old_time]]
    /\ UNCHANGED <<bookings, blocked, nextId, lock, confirm_kb, now, probe, history, jobs, services, retry, sent, executor>>

\* Line 254
reschedule_booking_begin(p) ==
    /\ at(p, "reschedule", "begin")
    /\ begin_immediate(p)
    /\ goto(p, [pc |-> "check"])
    /\ UNCHANGED <<bookings, blocked, nextId, confirm_kb, now, probe, history, jobs, services, retry, sent, executor>>

\* Lines 257-280: the old row is read, then the new slot is checked with the
\* old row's duration; rollback and False when either fails.
reschedule_booking_check(p) ==
    /\ at(p, "reschedule", "check")
    /\ LET c == calls[p]
           old == select_by_id(bookings, c.bid, c.user)
       IN
       IF old = {}
       THEN release(p) /\ goto(p, [pc |-> "done", res |-> "False"])
       ELSE LET old_booking == CHOOSE b \in old : TRUE
                duration == duration_or_60(old_booking.dur)
            IN
            IF ~check_slot_availability_in_transaction(
                    existing_for_reschedule(bookings, c.bid), blocked,
                    c.date, c.time, duration)
            THEN release(p) /\ goto(p, [pc |-> "done", res |-> "False",
                                         dur |-> duration])
            ELSE UNCHANGED lock /\ goto(p, [pc |-> "update", dur |-> duration,
                                           service |-> old_booking.service])
    /\ UNCHANGED <<bookings, blocked, nextId, confirm_kb, now, probe, history, jobs, services, retry, sent, executor>>

\* Lines 283-290 and 320-323: UPDATE ... SET date, time, created_at WHERE id and commit;
\* an IntegrityError of UNIQUE(date, time) is caught: rollback and False.
reschedule_booking_update(p) ==
    /\ at(p, "reschedule", "update")
    /\ LET c == calls[p]
           old == {b \in bookings : b.id = c.bid}
       IN
       IF unique_date_time(bookings \ old, c.date, c.time)
       THEN /\ bookings' = (bookings \ old) \cup
                  {[b EXCEPT !.date = c.date, !.time = c.time,
                             !.created_at = now] : b \in old}
            /\ goto(p, [pc |-> "done", res |-> "True", removed |-> old,
                        clock |-> now])
       ELSE /\ UNCHANGED bookings
            /\ goto(p, [pc |-> "done", res |-> "False"])
    /\ release(p)
    /\ UNCHANGED <<blocked, nextId, confirm_kb, now, probe, history, jobs, services, retry, sent, executor>>

----------------------------------------------------------------------------
(* Self-service cancellation: cancel_booking_callback, cancel_confirmed and
   BookingService.cancel_booking *)

\* "cancel:<id>": the row is read by id and user, can_cancel_booking decides,
\* and the confirmation keyboard for that id is shown.  A refusal shows an
\* alert with f"{hours_until:.1f}".
cancel_booking_callback(user_id, booking_id) ==
    /\ LET result == select_by_id(bookings, booking_id, user_id) IN
       /\ result # {}
       /\ LET b == CHOOSE x \in result : TRUE
              r == can_cancel_booking(b.date, b.time, now)
          IN
          IF r.allowed
          THEN /\ confirm_kb' = confirm_kb \cup {booking_id}
               /\ UNCHANGED probe
          ELSE /\ UNCHANGED confirm_kb
               /\ probe' = [kind |-> "alert", bid |-> booking_id,
                            minutes |-> r.minutes,
                            shown |-> format_1f(r.minutes)]
    /\ UNCHANGED <<bookings, blocked, nextId, lock, calls, now, history, jobs, services, retry, sent, executor>>

\* "cancel_confirm:<id>": the row is read
\* by id and user (lines 587-593), and cancel_booking is called with its date
\* and time.
cancel_confirmed(p, user_id, booking_id) ==
    /\ idle(p)
    /\ LET result == select_by_id(bookings, booking_id, user_id) IN
       IF result = {}
       THEN calls' = [calls EXCEPT ![p] =
                [Call("cancel", "done", user_id, 0, 0, 0, 0, booking_id)
                    EXCEPT !.res = "not_found"]]
       ELSE LET b == CHOOSE x \in result : TRUE IN
            calls' = [calls EXCEPT ![p] =
                Call("cancel", "select", user_id, b.date, b.time, 0, 0, booking_id)]
    /\ UNCHANGED <<bookings, blocked, nextId, lock, confirm_kb, now, probe, history, jobs, services, retry, sent, executor>>

\* cancel_booking lines 414-422: "SELECT id ... WHERE date=? AND time=? AND user_id=?"
cancel_booking_select(p) ==
    /\ at(p, "cancel", "select")
    /\ LET c == calls[p]
           result == {b \in bookings :
                        b.date = c.date /\ b.time = c.time /\ b.user = c.user}
       IN
       IF result = {}
       THEN goto(p, [pc |-> "done", res |-> "False"])
       ELSE goto(p, [pc |-> "delete", sel |-> result])
    /\ UNCHANGED <<bookings, blocked, nextId, lock, confirm_kb, now, probe, history, jobs, services, retry, sent, executor>>

\* cancel_booking lines 424-449: "DELETE FROM bookings WHERE id=?" and commit;
\* True whatever the DELETE removed.
cancel_booking_delete(p) ==
    /\ at(p, "cancel", "delete")
    /\ write_allowed
    /\ LET c == calls[p]
           gone == {b \in bookings : \E s \in c.sel : b.id = s.id}
       IN
       /\ bookings' = bookings \ gone
       /\ goto(p, [pc |-> "done", res |-> "True", removed |-> gone, clock |-> now])
    /\ UNCHANGED <<blocked, nextId, lock, confirm_kb, now, probe, history, jobs, services, retry, sent, executor>>

----------------------------------------------------------------------------
(* BookingRepository.block_slot and block_slot_with_notification *)

\* UNIQUE(date, time) of blocked_slots
unique_block(blocks, date, time) ==
    ~\E s \in blocks : s.date = date /\ s.time = time

BlockedSlot(date, time) == [date |-> date, time |-> time]

\* block_slot: one INSERT and commit; IntegrityError -> False.
block_slot(p, date, time) ==
    /\ idle(p)
    /\ write_allowed
    /\ IF unique_block(blocked, date, time)
       THEN /\ blocked' = blocked \cup {BlockedSlot(date, time)}
            /\ calls' = [calls EXCEPT ![p] =
                   [Call("block_slot", "done", 0, date, time, 0, 0, 0)
                       EXCEPT !.res = "True"]]
       ELSE /\ UNCHANGED blocked
            /\ calls' = [calls EXCEPT ![p] =
                   [Call("block_slot", "done", 0, date, time, 0, 0, 0)
                       EXCEPT !.res = "False"]]
    /\ UNCHANGED <<bookings, nextId, lock, confirm_kb, now, probe, history, jobs, services, retry, sent, executor>>

\* username or f"ID{user_id}"
display_name(username, user_id) ==
    IF username = <<>> THEN <<"ID", user_id>> ELSE username

\* One entry of cancelled_users
cancelled_user(b, date, time) ==
    [user_id |-> b.user, username |-> display_name(b.username, b.user),
     date |-> date, time |-> time]

\* A plausible slip: the DELETE stays when the INSERT fails (a connection in
\* autocommit mode, or a commit on the error path).
close_keeping_delete(rows, gone) == rows \ gone

\* Lines 311, 358-360: the IntegrityError leaves the `async with` block before
\* db.commit(); the connection is closed with the DELETE's transaction open,
\* which rolls it back.
close_without_commit(rows, gone) == rows

\* Lines 311-317: "SELECT user_id, username FROM bookings WHERE date=? AND time=?"
block_slot_with_notification_select(p, date, time) ==
    /\ idle(p)
    /\ calls' = [calls EXCEPT ![p] =
           [Call("block", "write", 0, date, time, 0, 0, 0)
               EXCEPT !.sel = {b \in bookings : b.date = date /\ b.time = time}]]
    /\ UNCHANGED <<bookings, blocked, nextId, lock, confirm_kb, now, probe, history, jobs, services, retry, sent, executor>>

\* Lines 319-361: if the SELECT returned rows, "DELETE FROM bookings WHERE
\* date=? AND time=?"; then the INSERT into blocked_slots and the commit.  An
\* IntegrityError of the INSERT leaves the DELETE uncommitted: (False, []).
block_slot_with_notification_write(p) ==
    /\ at(p, "block", "write")
    /\ write_allowed
    /\ LET c == calls[p]
           gone == IF c.sel = {} THEN {}
                   ELSE {b \in bookings : b.date = c.date /\ b.time = c.time}
       IN
       IF unique_block(blocked, c.date, c.time)
       THEN /\ bookings' = bookings \ gone
            /\ blocked' = blocked \cup {BlockedSlot(c.date, c.time)}
            /\ goto(p, [pc |-> "done", res |-> "True", removed |-> gone,
                        clock |-> now,
                        cancelled_users |->
                            {cancelled_user(b, c.date, c.time) : b \in c.sel}])
       ELSE /\ bookings' = close_without_commit(bookings, gone)
            /\ UNCHANGED blocked
            /\ goto(p, [pc |-> "done", res |-> "False"])
    /\ UNCHANGED <<nextId, lock, confirm_kb, now, probe, history, jobs, services, retry, sent, executor>>

----------------------------------------------------------------------------
(* The scheduler's job store (APScheduler, in memory: jobstores={}) *)

REMINDER_HOURS_BEFORE_24H == 24
REMINDER_HOURS_BEFORE_2H == 2
REMINDER_HOURS_BEFORE_1H == 1
FEEDBACK_HOURS_AFTER == 2

\* f"reminder_{booking_id}" and f"feedback_{booking_id}"
reminder_id(booking_id) == <<"reminder", booking_id>>
feedback_id(booking_id) == <<"feedback", booking_id>>

Job(id, run_date) == [id |-> id, run_date |-> run_date]

\* A plausible slip: every registration gets a job id of its own.
add_job_numbered(js, id, run_date) == js \cup {Job(<<id, Cardinality(js)>>, run_date)}

\* A plausible slip: a registration leaves a job of the same id in the store.
add_job_keep_existing(js, id, run_date) == js \cup {Job(id, run_date)}

\* scheduler.add_job(..., "date", run_date=, id=, replace_existing=True)
add_job(js, id, run_date) == {j \in js : j.id # id} \cup {Job(id, run_date)}

\* _remove_job_safe: scheduler.remove_job(job_id), a missing job is ignored
remove_job_safe(js, id) == {j \in js : j.id # id}

\* A plausible slip: the feedback job is left in the store.
remove_reminder_only(js, booking_id) == remove_job_safe(js, reminder_id(booking_id))

\* A plausible slip: reschedule_booking leaves the old jobs to replace_existing.
remove_no_job(js, booking_id) == js

\* cancel_booking lines 442-443, reschedule_booking lines 303-304
remove_booking_jobs(js, booking_id) ==
    remove_job_safe(remove_job_safe(js, reminder_id(booking_id)),
                    feedback_id(booking_id))

\* A plausible slip: the 2h lead is taken whenever more than 1h remains.
reminder_hours_skipping_24h(time_until_booking) ==
    IF time_until_booking > REMINDER_HOURS_BEFORE_1H * 60
    THEN {REMINDER_HOURS_BEFORE_2H}
    ELSE {}

\* _schedule_reminder lines 348-383: the lead of the reminder, in hours; the
\* empty set when no reminder is scheduled.
reminder_hours(time_until_booking) ==
    IF time_until_booking > REMINDER_HOURS_BEFORE_24H * 60
    THEN {REMINDER_HOURS_BEFORE_24H}
    ELSE IF time_until_booking > REMINDER_HOURS_BEFORE_2H * 60
    THEN {REMINDER_HOURS_BEFORE_2H}
    ELSE IF time_until_booking > REMINDER_HOURS_BEFORE_1H * 60
    THEN {REMINDER_HOURS_BEFORE_1H}
    ELSE {}

\* _schedule_reminder lines 385-386: booking_datetime + FEEDBACK_HOURS_AFTER
feedback_time(booking_datetime) == booking_datetime + FEEDBACK_HOURS_AFTER * 60

\* _schedule_reminder: at most one reminder job, then the feedback job.
schedule_reminder(js, booking_id, date, time, clock) ==
    LET booking_datetime == localize(date, time)
        lead == reminder_hours(booking_datetime - clock)
        with_reminder ==
            IF lead = {} THEN js
            ELSE add_job(js, reminder_id(booking_id),
                         booking_datetime - (CHOOSE h \in lead : TRUE) * 60)
    IN add_job(with_reminder, feedback_id(booking_id), feedback_time(booking_datetime))

\* restore_reminders lines 478-510, for one row: the 24h reminder and the
\* feedback job, each only when its time is after now.
restore_booking(js, b, clock) ==
    LET booking_datetime == localize(b.date, b.time)
        reminder_time == booking_datetime - REMINDER_HOURS_BEFORE_24H * 60
        with_reminder == IF reminder_time > clock
                         THEN add_job(js, reminder_id(b.id), reminder_time)
                         ELSE js
    IN IF feedback_time(booking_datetime) > clock
       THEN add_job(with_reminder, feedback_id(b.id), feedback_time(booking_datetime))
       ELSE with_reminder

\* "SELECT id, date, time, user_id FROM bookings ORDER BY date, time": the
\* first row of a non-empty table (UNIQUE(date, time) makes it unique)
first_by_date_time(rows) ==
    CHOOSE b \in rows : \A x \in rows : localize(b.date, b.time) <= localize(x.date, x.time)

RECURSIVE restore_rows(_, _, _)
\* restore_reminders lines 475-513: every row in turn
restore_rows(js, rows, clock) ==
    IF rows = {} THEN js
    ELSE LET b == first_by_date_time(rows) IN
         restore_rows(restore_booking(js, b, clock), rows \ {b}, clock)

----------------------------------------------------------------------------
(* BookingService.restore_reminders as a loop: the batches of lines 475-523.
   probe holds the locals of the running call. *)

RECURSIVE fetchall_ordered(_)
\* cursor.fetchall() of "... ORDER BY date, time": the rows as a list
fetchall_ordered(rows) ==
    IF rows = {} THEN <<>>
    ELSE LET b == first_by_date_time(rows) IN <<b>> \o fetchall_ordered(rows \ {b})

\* all_bookings[i : i + batch_size]: the slice ends with the list
batch_slice(all_bookings, i, batch_size) ==
    SubSeq(all_bookings, i + 1,
           IF i + batch_size < Len(all_bookings) THEN i + batch_size
           ELSE Len(all_bookings))

\* A plausible slip: the exception of one booking ends the whole loop.
loop_except_leaving == "leave"

\* Lines 512-515: "except Exception as e: logging.warning(...)" inside the
\* for loop: the loop goes on to the next booking
loop_except == "continue"

\* Lines 460-473: now is read, the table is fetched, the counters start at 0.
\* failing holds the ids whose handling raises (a date or time text that
\* strptime rejects).  The job store is that of the process that starts.
restore_reminders_begin(batch_size, failing) ==
    /\ \A p \in DOMAIN calls : idle(p)
    /\ ~(probe.kind = "restore_reminders" /\ probe.pc # "completed")
    /\ failing \subseteq {b.id : b \in bookings}
    /\ jobs' = {}
    /\ probe' = [kind |-> "restore_reminders", pc |-> "batch", clock |-> now,
                 all_bookings |-> fetchall_ordered(bookings),
                 total_bookings |-> Cardinality(bookings),
                 batch_size |-> batch_size, failing |-> failing,
                 i |-> 0, batch |-> <<>>, k |-> 0,
                 processed |-> <<>>, processed_count |-> 0, restored_count |-> 0]
    /\ UNCHANGED <<bookings, blocked, nextId, lock, calls, confirm_kb, now,
                   history, services, retry, sent, executor>>

\* Line 475: "for i in range(0, total_bookings, batch_size)" takes the next
\* batch, or the loop is over (lines 525-528).
restore_reminders_batch ==
    /\ probe.kind = "restore_reminders"
    /\ probe.pc = "batch"
    /\ probe' = IF probe.i < probe.total_bookings
                THEN [probe EXCEPT
                        !.batch = batch_slice(probe.all_bookings, probe.i, probe.batch_size),
                        !.k = 1, !.pc = "booking"]
                ELSE [probe EXCEPT !.pc = "completed"]
    /\ UNCHANGED <<bookings, blocked, nextId, lock, calls, confirm_kb, now,
                   history, jobs, services, retry, sent, executor>>

\* Lines 478-517: one booking of the batch; finally: processed_count += 1.
\* After the last booking of the batch the progress is logged and i moves on
\* by batch_size.
restore_reminders_booking ==
    /\ probe.kind = "restore_reminders"
    /\ probe.pc = "booking"
    /\ LET b == probe.batch[probe.k]
           raised == b.id \in probe.failing
           reminder_time == localize(b.date, b.time) - REMINDER_HOURS_BEFORE_24H * 60
           counted == [probe EXCEPT
                         !.processed = Append(@, b.id),
                         !.processed_count = @ + 1,
                         !.restored_count =
                             IF ~raised /\ reminder_time > probe.clock THEN @ + 1 ELSE @]
       IN
       /\ jobs' = IF raised THEN jobs ELSE restore_booking(jobs, b, probe.clock)
       /\ probe' = IF raised /\ loop_except = "leave"
                   THEN [counted EXCEPT !.pc = "completed"]
                   ELSE IF probe.k < Len(probe.batch)
                   THEN [counted EXCEPT !.k = @ + 1]
                   ELSE [counted EXCEPT !.i = @ + probe.batch_size, !.pc = "batch"]
    /\ UNCHANGED <<bookings, blocked, nextId, lock, calls, confirm_kb, now,
                   history, services, retry, sent, executor>>

----------------------------------------------------------------------------
(* BookingHistoryRepository *)

\* a column left NULL
NULL == -1

\* record_create, lines 46-64
create_entry(booking_id, user_id, date, time, service_id) ==
    [booking_id |-> booking_id, action |-> "create", changed_by |-> user_id,
     old_date |-> NULL, old_time |-> NULL, new_date |-> date, new_time |-> time,
     old_service_id |-> NULL, new_service_id |-> service_id]

\* record_cancel, lines 101-121
cancel_entry(booking_id, user_id, date, time, service_id) ==
    [booking_id |-> booking_id, action |-> "cancel", changed_by |-> user_id,
     old_date |-> date, old_time |-> time, new_date |-> NULL, new_time |-> NULL,
     old_service_id |-> service_id, new_service_id |-> NULL]

\* record_reschedule, lines 164-188
reschedule_entry(booking_id, user_id, old_date, old_time, new_date, new_time, service_id) ==
    [booking_id |-> booking_id, action |-> "reschedule", changed_by |-> user_id,
     old_date |-> old_date, old_time |-> old_time,
     new_date |-> new_date, new_time |-> new_time,
     old_service_id |-> service_id, new_service_id |-> service_id]

\* datetime.isoformat() of an instant, "YYYY-MM-DDTHH:MM...": the date, then
\* the time of day.  A date alone, "YYYY-MM-DD", is the one-element text.
isoformat(instant) == <<date_of(instant), instant % MinutesPerDay>>

\* A plausible slip: the comparison with the cutoff is "<=".
text_less_or_equal(a, b) ==
    \/ a = b
    \/ \E i \in 1..Len(a) :
          /\ i <= Len(b)
          /\ \A k \in 1..(i - 1) : a[k] = b[k]
          /\ a[i] < b[i]
    \/ Len(a) < Len(b) /\ \A k \in 1..Len(a) : a[k] = b[k]

\* "changed_at < ?" on two texts (SQLite compares TEXT with memcmp): the first
\* differing element decides, and a proper prefix is the smaller text.
text_less(a, b) ==
    \/ \E i \in 1..Len(a) :
          /\ i <= Len(b)
          /\ \A k \in 1..(i - 1) : a[k] = b[k]
          /\ a[i] < b[i]
    \/ Len(a) < Len(b) /\ \A k \in 1..Len(a) : a[k] = b[k]

\* One INSERT into booking_history on a connection of its own, with
\* changed_at = datetime.now().isoformat(), and the commit.
\* ok = FALSE: the write raised; the error is logged, nothing is written.
record(p, entry, ok) ==
    /\ write_allowed
    /\ history' = IF ok
                  THEN Append(history, entry @@ [changed_at |-> isoformat(now)])
                  ELSE history
    /\ goto(p, [pc |-> "jobs"])
    /\ UNCHANGED <<bookings, blocked, nextId, lock, confirm_kb, now, probe, jobs, services, retry, sent, executor>>

\* cleanup_old_history: "DELETE FROM booking_history WHERE changed_at < ?" and
\* the commit; probe keeps the call's argument, the table it met and the
\* rowcount it returns.
cleanup_old_history(before_date) ==
    /\ write_allowed
    /\ history' = SelectSeq(history, LAMBDA e : ~text_less(e.changed_at, before_date))
    /\ probe' = [kind |-> "cleanup", before_date |-> before_date, rows |-> history,
                 deleted |-> Len(history) - Len(history')]
    /\ UNCHANGED <<bookings, blocked, nextId, lock, calls, confirm_kb, now,
                   jobs, services, retry, sent, executor>>

\* BookingRepository.cleanup_old_bookings lines 222-235: "DELETE FROM bookings
\* WHERE date < ?" and the commit; it returns the rowcount.  date and the
\* argument are "YYYY-MM-DD" texts.
cleanup_old_bookings(before_date) ==
    /\ write_allowed
    /\ bookings' = {b \in bookings : ~text_less(<<b.date>>, <<before_date>>)}
    /\ probe' = [kind |-> "cleanup_bookings", before_date |-> before_date,
                 deleted_count |-> Cardinality(bookings) - Cardinality(bookings')]
    /\ UNCHANGED <<blocked, nextId, lock, calls, confirm_kb, now, history,
                   jobs, services, retry, sent, executor>>

\* admin_handlers.cleanup_old_bookings lines 299-315: the admin's clean-up
\* button, today_str = now_local().strftime("%Y-%m-%d")
admin_cleanup == cleanup_old_bookings(date_of(now))

\* A plausible slip: the rollback of the error path takes the inserted row back.
rollback_undoing_insert(rows, booking_id) == {b \in rows : b.id # booking_id}

\* db.rollback() after db.commit(): there is nothing left to roll back
rollback_after_commit(rows, booking_id) == rows

\* Database.log_event, the last step of the three operations: when it raises,
\* the operation's `except Exception` rolls back and turns the exception into
\* the failure result.
log_event(p, ok, failure) ==
    /\ calls[p].pc = "log"
    /\ bookings' = IF ok THEN bookings
                   ELSE rollback_after_commit(bookings, calls[p].bid)
    /\ goto(p, IF ok THEN [pc |-> "returned"]
                ELSE [pc |-> "returned", res |-> failure])
    /\ UNCHANGED <<blocked, nextId, lock, confirm_kb, now, probe,
                   history, jobs, services, retry, sent, executor>>

----------------------------------------------------------------------------
(* Follow-up work of create_booking, reschedule_booking and cancel_booking,
   after the commit.  ok = FALSE is a step that raised. *)

\* create_booking lines 150-156
create_booking_record(p, ok) ==
    /\ at(p, "create", "done")
    /\ calls[p].res = ERROR_SUCCESS
    /\ LET c == calls[p] IN
       record(p, create_entry(c.bid, c.user, c.date, c.time, c.service), ok)

\* create_booking line 159: _schedule_reminder, whose own except logs an error
create_booking_schedule(p, ok) ==
    /\ at(p, "create", "jobs")
    /\ LET c == calls[p] IN
       jobs' = IF ok THEN schedule_reminder(jobs, c.bid, c.date, c.time, now)
               ELSE jobs
    /\ goto(p, [pc |-> "log"])
    /\ UNCHANGED <<bookings, blocked, nextId, lock, confirm_kb, now, probe,
                   history, services, retry, sent, executor>>

\* create_booking lines 161-177
create_booking_log(p, ok) ==
    /\ calls[p].op = "create"
    /\ log_event(p, ok, ERROR_UNKNOWN)

\* reschedule_booking lines 292-302
reschedule_booking_record(p, ok) ==
    /\ at(p, "reschedule", "done")
    /\ calls[p].res = "True"
    /\ LET c == calls[p] IN
       record(p, reschedule_entry(c.bid, c.user, c.old_date, c.old_time,
                                  c.date, c.time, c.service), ok)

\* reschedule_booking lines 304-308: both jobs are removed, then
\* _schedule_reminder registers the jobs of the new date and time
reschedule_booking_schedule(p, ok) ==
    /\ at(p, "reschedule", "jobs")
    /\ LET c == calls[p]
           removed == remove_booking_jobs(jobs, c.bid)
       IN
       jobs' = IF ok THEN schedule_reminder(removed, c.bid, c.date, c.time, now)
               ELSE removed
    /\ goto(p, [pc |-> "log"])
    /\ UNCHANGED <<bookings, blocked, nextId, lock, confirm_kb, now, probe,
                   history, services, retry, sent, executor>>

\* reschedule_booking lines 310-323
reschedule_booking_log(p, ok) ==
    /\ calls[p].op = "reschedule"
    /\ log_event(p, ok, "False")

\* cancel_booking lines 427-439: record_cancel with the call's date_str and
\* time_str and the service_id its SELECT read
cancel_booking_record(p, ok) ==
    /\ at(p, "cancel", "done")
    /\ calls[p].res = "True"
    /\ LET c == calls[p]
           selected == CHOOSE b \in c.sel : TRUE
       IN
       record(p, cancel_entry(selected.id, c.user, c.date, c.time,
                              selected.service), ok)

\* cancel_booking lines 442-443
cancel_booking_remove_jobs(p) ==
    /\ at(p, "cancel", "jobs")
    /\ jobs' = remove_booking_jobs(jobs, (CHOOSE b \in calls[p].sel : TRUE).id)
    /\ goto(p, [pc |-> "log"])
    /\ UNCHANGED <<bookings, blocked, nextId, lock, confirm_kb, now, probe,
                   history, services, retry, sent, executor>>

\* cancel_booking lines 445-452
cancel_booking_log(p, ok) ==
    /\ calls[p].op = "cancel"
    /\ log_event(p, ok, "False")

\* The call committed a create, a reschedule or a cancel: follow-up work is due.
follow_up_due(p) ==
    /\ calls[p].op \in {"create", "reschedule", "cancel"}
    /\ calls[p].pc = "done"
    /\ calls[p].res \in {ERROR_SUCCESS, "True"}

\* The follow-up work of the call is over, or it had none.
completed(p) ==
    \/ calls[p].pc = "returned"
    \/ calls[p].pc = "done" /\ ~follow_up_due(p)

\* The call has returned after its follow-up work.
call_completed(p) ==
    /\ completed(p)
    /\ calls' = [calls EXCEPT ![p] = NoCall]
    /\ UNCHANGED <<bookings, blocked, nextId, lock, confirm_kb, now, probe,
                   history, jobs, services, retry, sent, executor>>

\* The call has returned to its handler; the slot is free again.
call_return(p) ==
    /\ calls[p].pc = "done"
    /\ calls' = [calls EXCEPT ![p] = NoCall]
    /\ UNCHANGED <<bookings, blocked, nextId, lock, confirm_kb, now, probe, history, jobs, services, retry, sent, executor>>

----------------------------------------------------------------------------
(* The jobs at run time: _send_reminder and _send_feedback_request of the
   booking service, and the periodic jobs of main.setup_reminder_jobs with
   services/reminder_service *)

\* What a call gives its caller: a returned value or a raised exception
Return(value) == [kind |-> "return", value |-> value]
Raise(exc) == [kind |-> "raise", value |-> exc]

\* What can happen to a job's notification: nothing; bot.send_message raises;
\* the message is sent and Database.log_event raises after it.
JobFaults == {"none", "send", "log"}

\* A plausible slip: the except clause of the job logs and re-raises.
job_except_reraising(raised) == raised

\* "except Exception as e: logging.error(...)": the job function returns
job_except(raised) == Return(NULL)

\* _send_reminder lines 540-555 and _send_feedback_request lines 585-594: the
\* send and the log_event inside one try
send_job(fault) ==
    IF fault = "none" THEN Return(NULL) ELSE job_except(Raise("Exception"))

\* The send_message call of a job, as the log of calls keeps it
Message(kind, booking_id, fault) ==
    [kind |-> kind, booking_id |-> booking_id, delivered |-> (fault # "send")]

\* The ids of the periodic jobs, id="reminder_24h" and id="reminder_1h"
reminder_24h_id == <<"reminder_24h", 0>>
reminder_1h_id == <<"reminder_1h", 0>>

\* The next 10:00 after an instant (cron, hour=10, minute=0)
next_cron(clock) ==
    LET today == localize(date_of(clock), strptime_HM(10, 0)) IN
    IF today > clock THEN today ELSE today + MinutesPerDay

\* setup_reminder_jobs and scheduler.start(): the daily job waits for the next
\* 10:00, the hourly job for one hour from the start.
setup_reminder_jobs(js, clock) ==
    add_job(add_job(js, reminder_24h_id, next_cron(clock)),
            reminder_1h_id, clock + 60)

\* A plausible slip: the repository has the method, and it selects the rows
\* of the date.
get_bookings_for_date_selecting(rows, date) == Return({b \in rows : b.date = date})

\* BookingRepository.get_bookings_for_date(date): BookingRepository and its
\* base class define no such method, so the attribute lookup raises
\* AttributeError.
get_bookings_for_date(rows, date) == Raise("AttributeError")

RECURSIVE send_each(_, _, _, _)
\* The loop of send_reminders_24h (lines 48-76) and send_reminders_1h (lines
\* 124-149): one send_message per booking, each in a try of its own; failing
\* holds the ids whose send raises.
send_each(log, rows, kind, failing) ==
    IF rows = {} THEN log
    ELSE LET b == first_by_date_time(rows)
             fault == IF b.id \in failing THEN "send" ELSE "none"
         IN send_each(Append(log, Message(kind, b.id, fault)), rows \ {b}, kind, failing)

\* send_reminders_24h lines 34-83: tomorrow's bookings; an exception of the
\* lookup is caught by the outer except, which returns (0, 0)
send_reminders_24h(log, rows, clock, failing) ==
    LET found == get_bookings_for_date(rows, date_of(clock + MinutesPerDay)) IN
    IF found.kind = "raise" THEN log
    ELSE send_each(log, found.value, "reminder_24h", failing)

\* send_reminders_1h lines 95-158: the bookings of the hour that starts within
\* the next hour, one_hour_later.replace(minute=0)
send_reminders_1h(log, rows, clock, failing) ==
    LET target == ((clock + 60) \div 60) * 60
        found == get_bookings_for_date(rows, date_of(target))
    IN
    IF found.kind = "raise" THEN log
    ELSE send_each(log, {b \in found.value : b.time = target % MinutesPerDay},
                   "reminder_1h", failing)

\* What the scheduler notes of a run: the job, what its function gave, the
\* number of send_message calls so far and the time.
JobRun(id, outcome, log) ==
    [kind |-> "job", id |-> id, outcome |-> outcome, seq |-> Len(log), at |-> now]

\* The scheduler runs a due "date" job of a booking, reminder_<id> or
\* feedback_<id>, and takes it out of the store.
run_booking_job(fault) ==
    \E j \in jobs :
        /\ j.id[1] \in {"reminder", "feedback"}
        /\ j.run_date <= now
        /\ sent' = Append(sent, Message(j.id[1], j.id[2], fault))
        /\ jobs' = jobs \ {j}
        /\ probe' = JobRun(j.id, send_job(fault), sent')
        /\ UNCHANGED <<bookings, blocked, nextId, lock, calls, confirm_kb, now,
                       history, services, retry, executor>>

\* The scheduler runs reminder_24h_job (main.py lines 203-210) and sets its
\* next run, a day later.
run_reminder_24h(failing) ==
    \E j \in jobs :
        /\ j.id = reminder_24h_id
        /\ j.run_date <= now
        /\ sent' = send_reminders_24h(sent, bookings, now, failing)
        /\ jobs' = add_job(jobs, j.id, j.run_date + MinutesPerDay)
        /\ probe' = JobRun(j.id, Return(NULL), sent')
        /\ UNCHANGED <<bookings, blocked, nextId, lock, calls, confirm_kb, now,
                       history, services, retry, executor>>

\* The scheduler runs reminder_1h_job (main.py lines 212-219) and sets its
\* next run, an hour later.
run_reminder_1h(failing) ==
    \E j \in jobs :
        /\ j.id = reminder_1h_id
        /\ j.run_date <= now
        /\ sent' = send_reminders_1h(sent, bookings, now, failing)
        /\ jobs' = add_job(jobs, j.id, j.run_date + 60)
        /\ probe' = JobRun(j.id, Return(NULL), sent')
        /\ UNCHANGED <<bookings, blocked, nextId, lock, calls, confirm_kb, now,
                       history, services, retry, executor>>

----------------------------------------------------------------------------
(* The scheduler and its executor as start_bot configures them (main.py lines
   291-295): a thread pool of one worker, coalesce False, max_instances 1, and
   no misfire_grace_time, so that the scheduler's default of one second holds *)

\* executors: "max_workers": 1
max_workers == 1

\* job_defaults: "max_instances": 1
max_instances == 1

\* job_defaults names no misfire_grace_time: the default, in seconds
misfire_grace_time == 1

\* A run of a job: the job and the time it was due
Run(id, run_time) == [id |-> id, run_time |-> run_time]

\* Nothing submitted, the worker free, nothing given up
NoExecutor == [queue |-> <<>>, running |-> {}, dropped |-> <<>>]

\* The instances of a job the executor holds: submitted and not yet finished
instances(ex, id) ==
    Cardinality({i \in DOMAIN ex.queue : ex.queue[i].id = id})
    + Cardinality({r \in ex.running : r.id = id})

\* The next run of a job after one run: none for a "date" job, a day later for
\* the cron job, an hour later for the interval job
next_run(js, j) ==
    IF j.id = reminder_24h_id THEN add_job(js, j.id, j.run_date + MinutesPerDay)
    ELSE IF j.id = reminder_1h_id THEN add_job(js, j.id, j.run_date + 60)
    ELSE js \ {j}

\* The scheduler wakes for a due job and submits its run to the executor; with
\* max_instances instances of the job already there the run is skipped.  The
\* job gets its next run time either way.
process_jobs ==
    \E j \in jobs :
        /\ j.run_date <= now
        /\ executor' =
              IF instances(executor, j.id) >= max_instances
              THEN [executor EXCEPT
                      !.dropped = Append(@, [id |-> j.id, run_time |-> j.run_date,
                                             why |-> "max_instances"])]
              ELSE [executor EXCEPT !.queue = Append(@, Run(j.id, j.run_date))]
        /\ jobs' = next_run(jobs, j)
        /\ UNCHANGED <<bookings, blocked, nextId, lock, calls, confirm_kb, now, probe,
                       history, services, retry, sent>>

\* A run is late when it starts more than misfire_grace_time after it was due
\* (the clock counts minutes)
misfired(run_time, clock) == (clock - run_time) * 60 > misfire_grace_time

\* A free worker takes the first submitted run: a late run is given up as
\* missed, any other starts.
executor_start ==
    /\ Cardinality(executor.running) < max_workers
    /\ executor.queue # <<>>
    /\ LET run == Head(executor.queue) IN
       executor' =
           IF misfired(run.run_time, now)
           THEN [executor EXCEPT
                   !.queue = Tail(@),
                   !.dropped = Append(@, [id |-> run.id, run_time |-> run.run_time,
                                          why |-> "missed"])]
           ELSE [executor EXCEPT !.queue = Tail(@), !.running = @ \cup {run}]
    /\ UNCHANGED <<bookings, blocked, nextId, lock, calls, confirm_kb, now, probe,
                   history, jobs, services, retry, sent>>

\* The job function returns and the worker is free again.
executor_finish ==
    \E run \in executor.running :
        /\ executor' = [executor EXCEPT !.running = @ \ {run}]
        /\ UNCHANGED <<bookings, blocked, nextId, lock, calls, confirm_kb, now, probe,
                       history, jobs, services, retry, sent>>

----------------------------------------------------------------------------
(* database/db_retry: the retry decorator, and the create_booking of
   services/booking_service_fixed that it wraps *)

\* The exception classes of sqlite3 and the builtins: a class and its bases
exception_bases(exc) ==
    IF exc \in {"OperationalError", "IntegrityError"}
    THEN {exc, "DatabaseError", "Exception"}
    ELSE {exc, "Exception"}

\* isinstance(exc, classes), the test of an except clause
isinstance(exc, classes) == exception_bases(exc) \cap classes # {}

\* db_retry.py lines 29-34
RETRYABLE_ERRORS == {"OperationalError", "DatabaseError", "ConnectionError", "TimeoutError"}

\* What can happen to one run of create_booking: nothing; the connection
\* cannot be opened; BEGIN IMMEDIATE finds the database locked; a statement
\* times out; the user is at the limit; the slot is taken; the INSERT breaks
\* UNIQUE(date, time).
Faults == {"none", "connect", "begin_locked", "timeout", "limit", "slot", "integrity"}
TransientFaults == {"connect", "begin_locked", "timeout"}
BusinessFaults == {"limit", "slot", "integrity"}

\* booking_service_fixed.create_booking lines 58-100, the try block
try_block(fault) ==
    CASE fault = "begin_locked" -> Raise("OperationalError")
      [] fault = "timeout" -> Raise("TimeoutError")
      [] fault = "limit" -> Return(<<FALSE, "limit">>)
      [] fault = "slot" -> Return(<<FALSE, "taken">>)
      [] fault = "integrity" -> Raise("IntegrityError")
      [] OTHER -> Return(<<TRUE, "created">>)

\* A plausible slip: the except clauses log and re-raise.
except_clauses_reraising(raised) == raised

\* booking_service_fixed.create_booking lines 102-111: except IntegrityError,
\* then except Exception; both roll back and return a failure
except_clauses(raised) ==
    IF isinstance(raised.value, {"IntegrityError"})
    THEN Return(<<FALSE, "taken_meanwhile">>)
    ELSE IF isinstance(raised.value, {"Exception"})
    THEN Return(<<FALSE, "error">>)
    ELSE raised

\* booking_service_fixed.create_booking, the function db_retry wraps: the
\* connection is opened outside the try block (line 57)
create_booking_fixed(fault) ==
    IF fault = "connect" THEN Raise("OperationalError")
    ELSE LET r == try_block(fault) IN
         IF r.kind = "raise" THEN except_clauses(r) ELSE r

NoResult == [kind |-> "none", value |-> 0]

\* No wrapped call is running.
NoRetry ==
    [pc |-> "idle", max_retries |-> 0, backoff |-> 0, attempt |-> 0, delay |-> 0,
     slept |-> <<>>, outcomes |-> <<>>, result |-> NoResult]

\* wrapper, lines 56-58: the decorated function is called
db_retry_call(max_retries, base_delay, backoff) ==
    /\ retry.pc = "idle"
    /\ retry' = [NoRetry EXCEPT !.pc = "attempt", !.max_retries = max_retries,
                                !.backoff = backoff, !.delay = base_delay]
    /\ UNCHANGED <<bookings, blocked, nextId, lock, calls, confirm_kb, now, probe,
                   history, jobs, services, sent, executor>>

\* wrapper, lines 60-84: one pass of the loop up to the sleep.  outcomes keeps
\* what each run of the function met and gave.
db_retry_attempt(fault) ==
    /\ retry.pc = "attempt"
    /\ LET outcome == create_booking_fixed(fault)
           entry == [fault |-> fault, kind |-> outcome.kind, value |-> outcome.value]
           pc == IF outcome.kind = "return" THEN "returned"
                 ELSE IF ~isinstance(outcome.value, RETRYABLE_ERRORS) THEN "raised"
                 ELSE IF retry.attempt >= retry.max_retries THEN "raised"
                 ELSE "sleep"
       IN
       retry' = [retry EXCEPT !.pc = pc,
                              !.outcomes = Append(@, entry),
                              !.result = IF pc = "sleep" THEN @ ELSE outcome]
    /\ UNCHANGED <<bookings, blocked, nextId, lock, calls, confirm_kb, now, probe,
                   history, jobs, services, sent, executor>>

\* wrapper, lines 78-79 and the next pass of the for loop
db_retry_sleep ==
    /\ retry.pc = "sleep"
    /\ retry' = [retry EXCEPT !.pc = "attempt",
                              !.slept = Append(@, retry.delay),
                              !.delay = @ * retry.backoff,
                              !.attempt = @ + 1]
    /\ UNCHANGED <<bookings, blocked, nextId, lock, calls, confirm_kb, now, probe,
                   history, jobs, services, sent, executor>>

\* The caller has the result or the exception.
db_retry_done ==
    /\ retry.pc \in {"returned", "raised"}
    /\ retry' = NoRetry
    /\ UNCHANGED <<bookings, blocked, nextId, lock, calls, confirm_kb, now, probe,
                   history, jobs, services, sent, executor>>

----------------------------------------------------------------------------
(* Domains of the specifications *)

Users == {1, 2}
ServiceIds == {s.id : s \in Services}
EveningTimes == {strptime_HM(20, 0), strptime_HM(21, 0)}

\* The clock of the specifications without time: noon of day 0.
Noon0 == localize(0, strptime_HM(12, 0))

\* Earlier bookings of user 1 on day 0 (made by k successful create_booking calls)
PriorSlots == <<strptime_HM(20, 0), strptime_HM(21, 0), strptime_HM(19, 0)>>
PriorBookings(k) == {Row(i, 0, PriorSlots[i], 1, 1, 60) : i \in 1..k}

----------------------------------------------------------------------------
(* SpecRace: concurrent create_booking calls, each call slot used once. *)

RaceProcs == 1..MaxRaceCalls

InitRace ==
    /\ \E k \in 0..(MAX_BOOKINGS_PER_USER - 1) :
          bookings = PriorBookings(k) /\ nextId = k + 1
    /\ blocked = {}
    /\ lock = 0
    /\ calls = [p \in RaceProcs |-> NoCall]
    /\ confirm_kb = {}
    /\ now = Noon0
    /\ probe = [kind |-> "none"]
    /\ history = <<>>
    /\ jobs = {}
    /\ services = Services
    /\ retry = NoRetry
    /\ sent = <<>>
    /\ executor = NoExecutor

\* Call slots are taken in order (the slots are interchangeable).
RaceCall(p) ==
    /\ \A q \in RaceProcs : q < p => ~idle(q)
    /\ \E u \in Users, t \in EveningTimes, s \in ServiceIds :
          create_booking_call(p, u, 1, t, s)

NextRace ==
    \E p \in RaceProcs :
        \/ RaceCall(p)
        \/ create_booking_begin(p)
        \/ create_booking_check(p)
        \/ create_booking_insert(p)

SpecRace == InitRace /\ [][NextRace]_vars

----------------------------------------------------------------------------
(* SpecLocked: the race of SpecRace, where a call that finds the write lock
   taken either waits for it or runs into the busy timeout. *)

NextLocked ==
    \E p \in RaceProcs :
        \/ RaceCall(p)
        \/ create_booking_begin(p)
        \/ create_booking_begin_locked(p)
        \/ create_booking_check(p)
        \/ create_booking_insert(p)

SpecLocked == InitRace /\ [][NextLocked]_vars

----------------------------------------------------------------------------
(* Spec: create, reschedule and cancel calls in flight together, the clock
   standing at noon of day 0.  SpecBlock: create, cancel and the two block
   operations of the admin. *)

Procs == 1..MaxInFlight
Dates == {1}

Init ==
    /\ bookings = {}
    /\ blocked = {}
    /\ nextId = 1
    /\ lock = 0
    /\ calls = [p \in Procs |-> NoCall]
    /\ confirm_kb = {}
    /\ now = Noon0
    /\ probe = [kind |-> "none"]
    /\ history = <<>>
    /\ jobs = {}
    /\ services = Services
    /\ retry = NoRetry
    /\ sent = <<>>
    /\ executor = NoExecutor

\* A new call takes the lowest free call slot.
free(p) == \A q \in DOMAIN calls : q < p => ~idle(q)

CreateCallOf(p, users) ==
    /\ free(p)
    /\ nextId <= MaxBookingId
    /\ \E u \in users, d \in Dates, t \in EveningTimes, s \in ServiceIds :
          create_booking_call(p, u, d, t, s)

\* Spec: one user books on day 1 and may move a booking to day 2.
CreateCall(p) == CreateCallOf(p, {1})

RescheduleSlots ==
    {<<1, strptime_HM(20, 0)>>, <<1, strptime_HM(21, 0)>>, <<2, strptime_HM(20, 0)>>}

RescheduleCall(p) ==
    /\ free(p)
    /\ \E b \in bookings, sl \in RescheduleSlots :
          reschedule_booking_call(p, b.user, b.id, sl[1], sl[2])

\* The clock stands still here, so a confirmation keyboard is on screen for
\* exactly the bookings whose cancel request is granted at that clock.
CancelConfirm(p) ==
    /\ free(p)
    /\ \E b \in bookings :
          /\ can_cancel_allowed(b.date, b.time, now)
          /\ cancel_confirmed(p, b.user, b.id)

BlockCall(p) ==
    /\ free(p)
    /\ \E d \in Dates, t \in EveningTimes :
          \/ block_slot(p, d, t)
          \/ block_slot_with_notification_select(p, d, t)

Next ==
    \E p \in Procs :
          \/ CreateCall(p)
          \/ create_booking_begin(p)
          \/ create_booking_check(p)
          \/ create_booking_insert(p)
          \/ RescheduleCall(p)
          \/ reschedule_booking_begin(p)
          \/ reschedule_booking_check(p)
          \/ reschedule_booking_update(p)
          \/ CancelConfirm(p)
          \/ cancel_booking_select(p)
          \/ cancel_booking_delete(p)
          \/ call_return(p)

Spec == Init /\ [][Next]_vars

\* SpecBlock: two users book on day 1.
CreateCallBlock(p) == CreateCallOf(p, Users)

NextBlock ==
    \E p \in Procs :
          \/ CreateCallBlock(p)
          \/ create_booking_begin(p)
          \/ create_booking_check(p)
          \/ create_booking_insert(p)
          \/ CancelConfirm(p)
          \/ cancel_booking_select(p)
          \/ cancel_booking_delete(p)
          \/ BlockCall(p)
          \/ block_slot_with_notification_write(p)
          \/ call_return(p)

SpecBlock == Init /\ [][NextBlock]_vars

----------------------------------------------------------------------------
(* SpecCheck: the availability check and the cancellation window applied to
   tables and clocks drawn by Init. *)

Morning == strptime_HM(10, 0)

\* Tables that create_booking calls can have produced: no row, one row at
\* 10:00 of day 1, or that row and a later row that does not overlap it.
FirstRows == {Row(1, 1, Morning, 1, s.id, s.duration_minutes) : s \in Services}
SecondRows ==
    {Row(2, d, t, 2, s.id, s.duration_minutes) :
        d \in {1, 2}, t \in {strptime_HM(11, 0), strptime_HM(12, 0)}, s \in Services}
CheckTables ==
    {{}} \cup {{a} : a \in FirstRows}
         \cup UNION {{{a, b} : b \in {x \in SecondRows :
                                   ~(x.date = a.date /\ x.time < a.time + a.dur)}}
                      : a \in FirstRows}

CheckBlocks == {{}, {BlockedSlot(1, strptime_HM(11, 0))}}

\* Clocks around the moment CANCELLATION_HOURS before 10:00 of day 1, in even
\* minutes, and clocks shortly before and after the appointment itself.
WindowEdge == localize(1, Morning) - CANCELLATION_HOURS * 60
CheckClocks ==
    {WindowEdge - 2, WindowEdge, WindowEdge + 2, WindowEdge + 10,
     localize(1, Morning) - 60, localize(1, Morning) + 30}

CandidateTimes ==
    {strptime_HM(9, 30), Morning, strptime_HM(10, 30), strptime_HM(11, 0),
     strptime_HM(11, 30)}
CandidateDurations == {30, 60, 90}

InitCheck ==
    /\ bookings \in CheckTables
    /\ blocked \in CheckBlocks
    /\ nextId = Cardinality(bookings) + 1
    /\ lock = 0
    /\ calls = [p \in {1} |-> NoCall]
    /\ confirm_kb = {}
    /\ now \in CheckClocks
    /\ probe = [kind |-> "none"]
    /\ history = <<>>
    /\ jobs = {}
    /\ services = Services
    /\ retry = NoRetry
    /\ sent = <<>>
    /\ executor = NoExecutor

\* _check_slot_availability_in_transaction applied to a candidate
CheckProbe ==
    /\ \E d \in {1, 2}, t \in CandidateTimes, m \in CandidateDurations :
          probe' = [kind |-> "check", date |-> d, time |-> t, dur |-> m,
                    available |-> check_slot_availability_in_transaction(
                                      bookings, blocked, d, t, m)]
    /\ UNCHANGED <<bookings, blocked, nextId, lock, calls, confirm_kb, now, history, jobs, services, retry, sent, executor>>

\* can_cancel_booking applied to a date and a time
CanCancelProbe ==
    /\ \E d \in {1, 2}, t \in CandidateTimes :
          probe' = [kind |-> "can_cancel", date |-> d, time |-> t,
                    result |-> can_cancel_booking(d, t, now)]
    /\ UNCHANGED <<bookings, blocked, nextId, lock, calls, confirm_kb, now, history, jobs, services, retry, sent, executor>>

CancelRequest == \E b \in bookings : cancel_booking_callback(b.user, b.id)

NextCheck == CheckProbe \/ CanCancelProbe \/ CancelRequest

SpecCheck == InitCheck /\ [][NextCheck]_vars

----------------------------------------------------------------------------
(* SpecCancel and SpecLimit: one user, one call at a time, and a clock that
   moves.  The clock spans CALLBACK_MESSAGE_TTL_HOURS, so MessageCleanupMiddleware
   lets every keyboard shown in these runs through. *)

TickMinutes == 12 * 60

\* The clock moves on; the scheduler runs the jobs that have come due, and a
\* "date" job leaves the job store when it has run.
Tick ==
    /\ \A p \in DOMAIN calls : idle(p)
    /\ now + TickMinutes <= Noon0 + CALLBACK_MESSAGE_TTL_HOURS * 60
    /\ now' = now + TickMinutes
    /\ jobs' = {j \in jobs : j.run_date > now'}
    /\ UNCHANGED <<bookings, blocked, nextId, lock, calls, confirm_kb, probe, history, services, retry, sent, executor>>

InitTime ==
    /\ bookings = {}
    /\ blocked = {}
    /\ nextId = 1
    /\ lock = 0
    /\ calls = [p \in {1} |-> NoCall]
    /\ confirm_kb = {}
    /\ now = Noon0
    /\ probe = [kind |-> "none"]
    /\ history = <<>>
    /\ jobs = {}
    /\ services = Services
    /\ retry = NoRetry
    /\ sent = <<>>
    /\ executor = NoExecutor

\* The calendar offers slots that have not started yet.
CreateCallAt(p, slots, last_id) ==
    /\ nextId <= last_id
    /\ \E sl \in slots :
          /\ localize(sl[1], sl[2]) > now
          /\ create_booking_call(p, 1, sl[1], sl[2], 1)

CancelSlots == {<<1, strptime_HM(20, 0)>>, <<2, strptime_HM(20, 0)>>}

CreateCallCancel(p) == CreateCallAt(p, CancelSlots, MaxBookingId)

\* "cancel_confirm:<id>" is pressed on a keyboard that cancel_booking_callback
\* has shown.
CancelConfirmShown(p) == \E i \in confirm_kb : cancel_confirmed(p, 1, i)

NextCancel ==
    \/ Tick
    \/ CancelRequest
    \/ \E p \in {1} :
          \/ CreateCallCancel(p)
          \/ create_booking_begin(p)
          \/ create_booking_check(p)
          \/ create_booking_insert(p)
          \/ CancelConfirmShown(p)
          \/ cancel_booking_select(p)
          \/ cancel_booking_delete(p)
          \/ call_return(p)

SpecCancel == InitTime /\ [][NextCancel]_vars

LimitSlots ==
    {<<0, strptime_HM(20, 0)>>,
     <<1, strptime_HM(20, 0)>>, <<1, strptime_HM(21, 0)>>,
     <<2, strptime_HM(20, 0)>>, <<2, strptime_HM(21, 0)>>}

CreateCallLimit(p) == CreateCallAt(p, LimitSlots, MaxLimitId)

\* "reschedule_confirm:<id>:<date>:<time>" for any row of the user (neither
\* start_reschedule nor execute_reschedule looks at the row's date) and a slot
\* of the calendar that has not started yet.
RescheduleCallLimit(p) ==
    \E b \in bookings, sl \in LimitSlots :
        /\ localize(sl[1], sl[2]) > now
        /\ reschedule_booking_call(p, b.user, b.id, sl[1], sl[2])

NextLimit ==
    \/ Tick
    \/ \E p \in {1} :
          \/ CreateCallLimit(p)
          \/ create_booking_begin(p)
          \/ create_booking_check(p)
          \/ create_booking_insert(p)
          \/ RescheduleCallLimit(p)
          \/ reschedule_booking_begin(p)
          \/ reschedule_booking_check(p)
          \/ reschedule_booking_update(p)
          \/ call_return(p)

SpecLimit == InitTime /\ [][NextLimit]_vars

----------------------------------------------------------------------------
(* SpecHistory: one booking, then reschedule and cancel calls for it in flight
   together, each with its follow-up work (history entry, scheduler jobs,
   event log).  The clock stands at noon of day 0. *)

MaxHistoryId == 1       \* SpecHistory: creates start only while nextId <= MaxHistoryId
MaxHistoryLen == 2      \* SpecHistory: reschedules start only while history is shorter

CreateCallHistory(p) ==
    /\ free(p)
    /\ nextId <= MaxHistoryId
    /\ \E t \in EveningTimes, s \in ServiceIds : create_booking_call(p, 1, 1, t, s)

RescheduleCallHistory(p) ==
    /\ Len(history) < MaxHistoryLen
    /\ RescheduleCall(p)

NextHistory ==
    \E p \in Procs :
          \/ CreateCallHistory(p)
          \/ create_booking_begin(p)
          \/ create_booking_check(p)
          \/ create_booking_insert(p)
          \/ create_booking_record(p, TRUE)
          \/ create_booking_schedule(p, TRUE)
          \/ create_booking_log(p, TRUE)
          \/ RescheduleCallHistory(p)
          \/ reschedule_booking_begin(p)
          \/ reschedule_booking_check(p)
          \/ reschedule_booking_update(p)
          \/ reschedule_booking_record(p, TRUE)
          \/ reschedule_booking_schedule(p, TRUE)
          \/ reschedule_booking_log(p, TRUE)
          \/ CancelConfirm(p)
          \/ cancel_booking_select(p)
          \/ cancel_booking_delete(p)
          \/ cancel_booking_record(p, TRUE)
          \/ cancel_booking_remove_jobs(p)
          \/ cancel_booking_log(p, TRUE)
          \/ call_completed(p)

SpecHistory == Init /\ [][NextHistory]_vars

----------------------------------------------------------------------------
(* SpecJobs: one user, one call at a time with its follow-up work, a clock
   that moves, and restarts of the process. *)

MaxJobsId == 2          \* SpecJobs: creates start only while nextId <= MaxJobsId
MaxJobsHistory == 3     \* SpecJobs: calls start only while history is shorter

\* Slots at the edges of the reminder cascade, seen from noon of day 0: 1 h,
\* 2 h and 24 h ahead, and one 32 h ahead (20 h ahead after one tick).
JobSlots ==
    {<<0, strptime_HM(13, 0)>>, <<0, strptime_HM(14, 0)>>,
     <<1, strptime_HM(12, 0)>>, <<1, strptime_HM(20, 0)>>}

CreateCallJobs(p) ==
    /\ nextId <= MaxJobsId
    /\ Len(history) < MaxJobsHistory
    /\ \E sl \in JobSlots, s \in ServiceIds :
          /\ localize(sl[1], sl[2]) > now
          /\ create_booking_call(p, 1, sl[1], sl[2], s)

RescheduleCallJobs(p) ==
    /\ Len(history) < MaxJobsHistory
    /\ \E b \in bookings, sl \in JobSlots :
          /\ localize(sl[1], sl[2]) > now
          /\ reschedule_booking_call(p, b.user, b.id, sl[1], sl[2])

\* start_bot lines 291-295 and 350-351: the process starts with an empty job
\* store, restore_reminders fills it from the bookings table, and the
\* scheduler starts.  probe keeps what this run read and registered.
restore_reminders ==
    /\ \A p \in DOMAIN calls : idle(p)
    /\ jobs' = restore_rows({}, bookings, now)
    /\ probe' = [kind |-> "restore", rows |-> bookings, clock |-> now,
                 jobs |-> jobs']
    /\ UNCHANGED <<bookings, blocked, nextId, lock, calls, confirm_kb, now,
                   history, services, retry, sent, executor>>

NextJobs ==
    \/ Tick
    \/ restore_reminders
    \/ CancelRequest
    \/ \E p \in {1} :
          \/ CreateCallJobs(p)
          \/ create_booking_begin(p)
          \/ create_booking_check(p)
          \/ create_booking_insert(p)
          \/ create_booking_record(p, TRUE)
          \/ create_booking_schedule(p, TRUE)
          \/ create_booking_log(p, TRUE)
          \/ RescheduleCallJobs(p)
          \/ reschedule_booking_begin(p)
          \/ reschedule_booking_check(p)
          \/ reschedule_booking_update(p)
          \/ reschedule_booking_record(p, TRUE)
          \/ reschedule_booking_schedule(p, TRUE)
          \/ reschedule_booking_log(p, TRUE)
          \/ CancelConfirmShown(p)
          \/ cancel_booking_select(p)
          \/ cancel_booking_delete(p)
          \/ cancel_booking_record(p, TRUE)
          \/ cancel_booking_remove_jobs(p)
          \/ cancel_booking_log(p, TRUE)
          \/ call_completed(p)

SpecJobs == InitTime /\ [][NextJobs]_vars

----------------------------------------------------------------------------
(* SpecRetention: one booking made, moved and cancelled while the clock moves,
   and the retention sweep of the history called with cutoffs around the
   clock's values. *)

MaxRetentionId == 1     \* SpecRetention: creates start only while nextId <= MaxRetentionId
MaxRetentionLen == 3    \* SpecRetention: calls start only while history is shorter
MaxCutoffDate == 2      \* SpecRetention: cutoffs lie on days 0..MaxCutoffDate

RetentionSlots == {<<1, strptime_HM(12, 0)>>, <<2, strptime_HM(20, 0)>>}

\* before_date in ISO format: a date, or a date and a time of day
Cutoffs ==
    {<<d>> : d \in 0..MaxCutoffDate}
    \cup {<<d, t>> : d \in 0..MaxCutoffDate, t \in {strptime_HM(12, 0)}}

CreateCallRetention(p) ==
    /\ nextId <= MaxRetentionId
    /\ \E sl \in RetentionSlots :
          /\ localize(sl[1], sl[2]) > now
          /\ create_booking_call(p, 1, sl[1], sl[2], 1)

RescheduleCallRetention(p) ==
    /\ Len(history) < MaxRetentionLen
    /\ \E b \in bookings, sl \in RetentionSlots :
          /\ localize(sl[1], sl[2]) > now
          /\ reschedule_booking_call(p, b.user, b.id, sl[1], sl[2])

NextRetention ==
    \/ Tick
    \/ CancelRequest
    \/ \E before_date \in Cutoffs : cleanup_old_history(before_date)
    \/ \E p \in {1} :
          \/ CreateCallRetention(p)
          \/ create_booking_begin(p)
          \/ create_booking_check(p)
          \/ create_booking_insert(p)
          \/ create_booking_record(p, TRUE)
          \/ create_booking_schedule(p, TRUE)
          \/ create_booking_log(p, TRUE)
          \/ RescheduleCallRetention(p)
          \/ reschedule_booking_begin(p)
          \/ reschedule_booking_check(p)
          \/ reschedule_booking_update(p)
          \/ reschedule_booking_record(p, TRUE)
          \/ reschedule_booking_schedule(p, TRUE)
          \/ reschedule_booking_log(p, TRUE)
          \/ CancelConfirmShown(p)
          \/ cancel_booking_select(p)
          \/ cancel_booking_delete(p)
          \/ cancel_booking_record(p, TRUE)
          \/ cancel_booking_remove_jobs(p)
          \/ cancel_booking_log(p, TRUE)
          \/ call_completed(p)

SpecRetention == InitTime /\ [][NextRetention]_vars

----------------------------------------------------------------------------
(* SpecRemind: the scheduler at work.  One user books and cancels while the
   clock moves hour by hour; every job runs when it is due, and each send may
   fail. *)

MaxRemindId == 2        \* SpecRemind: creates start only while nextId <= MaxRemindId
MaxRemindHours == 7     \* SpecRemind: the clock stops this many hours after the start

\* The process starts at 08:00 of day 0.
RemindStart == localize(0, strptime_HM(8, 0))

\* Slots 4 h and 25 h after the start: the daily job of 10:00 looks at the
\* second, the hourly job of 11:00 at the first.
RemindSlots == {<<0, strptime_HM(12, 0)>>, <<1, strptime_HM(9, 0)>>}

InitRemind ==
    /\ bookings = {}
    /\ blocked = {}
    /\ nextId = 1
    /\ lock = 0
    /\ calls = [p \in {1} |-> NoCall]
    /\ confirm_kb = {}
    /\ now = RemindStart
    /\ probe = [kind |-> "none"]
    /\ history = <<>>
    /\ jobs = setup_reminder_jobs({}, RemindStart)
    /\ services = Services
    /\ retry = NoRetry
    /\ sent = <<>>
    /\ executor = NoExecutor

\* An hour passes, once every job that is due has run.
clock_hour ==
    /\ \A p \in DOMAIN calls : idle(p)
    /\ \A j \in jobs : j.run_date > now
    /\ now + 60 <= RemindStart + MaxRemindHours * 60
    /\ now' = now + 60
    /\ UNCHANGED <<bookings, blocked, nextId, lock, calls, confirm_kb, probe,
                   history, jobs, services, retry, sent, executor>>

CreateCallRemind(p) == CreateCallAt(p, RemindSlots, MaxRemindId)

NextRemind ==
    \/ clock_hour
    \/ \E fault \in JobFaults : run_booking_job(fault)
    \/ \E failing \in SUBSET ids(bookings) : run_reminder_24h(failing)
    \/ \E failing \in SUBSET ids(bookings) : run_reminder_1h(failing)
    \/ CancelRequest
    \/ \E p \in {1} :
          \/ CreateCallRemind(p)
          \/ create_booking_begin(p)
          \/ create_booking_check(p)
          \/ create_booking_insert(p)
          \/ create_booking_record(p, TRUE)
          \/ create_booking_schedule(p, TRUE)
          \/ create_booking_log(p, TRUE)
          \/ CancelConfirmShown(p)
          \/ cancel_booking_select(p)
          \/ cancel_booking_delete(p)
          \/ cancel_booking_record(p, TRUE)
          \/ cancel_booking_remove_jobs(p)
          \/ cancel_booking_log(p, TRUE)
          \/ call_completed(p)

SpecRemind == InitRemind /\ [][NextRemind]_vars

----------------------------------------------------------------------------
(* SpecRemoval: the three ways a booking row leaves the table.  One user books
   and cancels while the clock moves; the admin blocks slots and runs the
   clean-up of old bookings. *)

MaxRemovalId == 2       \* SpecRemoval: creates start only while nextId <= MaxRemovalId

RemovalSlots == {<<1, strptime_HM(20, 0)>>, <<2, strptime_HM(20, 0)>>}

CreateCallRemoval(p) == CreateCallAt(p, RemovalSlots, MaxRemovalId)

\* The admin blocks one slot (admin_handlers lines 536-539)
BlockCallRemoval(p) ==
    \E sl \in RemovalSlots : block_slot_with_notification_select(p, sl[1], sl[2])

NextRemoval ==
    \/ Tick
    \/ CancelRequest
    \/ admin_cleanup
    \/ \E p \in {1} :
          \/ CreateCallRemoval(p)
          \/ create_booking_begin(p)
          \/ create_booking_check(p)
          \/ create_booking_insert(p)
          \/ create_booking_record(p, TRUE)
          \/ create_booking_schedule(p, TRUE)
          \/ create_booking_log(p, TRUE)
          \/ CancelConfirmShown(p)
          \/ cancel_booking_select(p)
          \/ cancel_booking_delete(p)
          \/ cancel_booking_record(p, TRUE)
          \/ cancel_booking_remove_jobs(p)
          \/ cancel_booking_log(p, TRUE)
          \/ BlockCallRemoval(p)
          \/ block_slot_with_notification_write(p)
          \/ call_completed(p)

SpecRemoval == InitTime /\ [][NextRemoval]_vars

----------------------------------------------------------------------------
(* SpecOwner: two users book and cancel, and reschedule_booking is called for
   any user with any booking id: the user's own, the other user's, one that
   was deleted and one that was never given out. *)

MaxOwnerId == 2         \* SpecOwner: creates start only while nextId <= MaxOwnerId
MaxOwnerLen == 3        \* SpecOwner: reschedules start only while history is shorter

OwnerSlots == {<<1, strptime_HM(20, 0)>>, <<1, strptime_HM(21, 0)>>}

CreateCallOwner(p) ==
    /\ nextId <= MaxOwnerId
    /\ \E u \in Users, sl \in OwnerSlots : create_booking_call(p, u, sl[1], sl[2], 1)

RescheduleCallOwner(p) ==
    /\ Len(history) < MaxOwnerLen
    /\ \E u \in Users, booking_id \in 1..(MaxOwnerId + 1), old \in OwnerSlots, new \in OwnerSlots :
          reschedule_booking(p, booking_id, old[1], old[2], new[1], new[2], u)

NextOwner ==
    \E p \in {1} :
          \/ CreateCallOwner(p)
          \/ create_booking_begin(p)
          \/ create_booking_check(p)
          \/ create_booking_insert(p)
          \/ create_booking_record(p, TRUE)
          \/ create_booking_schedule(p, TRUE)
          \/ create_booking_log(p, TRUE)
          \/ RescheduleCallOwner(p)
          \/ reschedule_booking_begin(p)
          \/ reschedule_booking_check(p)
          \/ reschedule_booking_update(p)
          \/ reschedule_booking_record(p, TRUE)
          \/ reschedule_booking_schedule(p, TRUE)
          \/ reschedule_booking_log(p, TRUE)
          \/ CancelConfirm(p)
          \/ cancel_booking_select(p)
          \/ cancel_booking_delete(p)
          \/ cancel_booking_record(p, TRUE)
          \/ cancel_booking_remove_jobs(p)
          \/ cancel_booking_log(p, TRUE)
          \/ call_completed(p)

SpecOwner == InitTime /\ [][NextOwner]_vars

----------------------------------------------------------------------------
(* SpecFollowUp: one user books and moves bookings, one call at a time; each
   step of the follow-up work after the commit may raise. *)

MaxFollowUpId == 2      \* SpecFollowUp: creates start only while nextId <= MaxFollowUpId
MaxFollowUpLen == 2     \* SpecFollowUp: reschedules start only while history is shorter

CreateCallFollowUp(p) ==
    /\ nextId <= MaxFollowUpId
    /\ \E t \in EveningTimes : create_booking_call(p, 1, 1, t, 1)

RescheduleCallFollowUp(p) ==
    /\ Len(history) < MaxFollowUpLen
    /\ RescheduleCall(p)

NextFollowUp ==
    \E p \in {1} :
          \/ CreateCallFollowUp(p)
          \/ create_booking_begin(p)
          \/ create_booking_check(p)
          \/ create_booking_insert(p)
          \/ \E ok \in BOOLEAN : create_booking_record(p, ok)
          \/ \E ok \in BOOLEAN : create_booking_schedule(p, ok)
          \/ \E ok \in BOOLEAN : create_booking_log(p, ok)
          \/ RescheduleCallFollowUp(p)
          \/ reschedule_booking_begin(p)
          \/ reschedule_booking_check(p)
          \/ reschedule_booking_update(p)
          \/ \E ok \in BOOLEAN : reschedule_booking_record(p, ok)
          \/ \E ok \in BOOLEAN : reschedule_booking_schedule(p, ok)
          \/ \E ok \in BOOLEAN : reschedule_booking_log(p, ok)
          \/ call_completed(p)

SpecFollowUp == InitTime /\ [][NextFollowUp]_vars

----------------------------------------------------------------------------
(* SpecMove: one user books slots half an hour apart with services of 60 and
   90 minutes and moves a booking to any of the slots, the slot it is in and
   the slots its own interval covers included. *)

MaxMoveId == 2          \* SpecMove: creates start only while nextId <= MaxMoveId
MaxMoveLen == 3         \* SpecMove: calls start only while history is shorter

MoveSlots ==
    {<<1, strptime_HM(20, 0)>>, <<1, strptime_HM(20, 30)>>,
     <<1, strptime_HM(21, 0)>>, <<2, strptime_HM(20, 0)>>}

CreateCallMove(p) ==
    /\ nextId <= MaxMoveId
    /\ Len(history) < MaxMoveLen
    /\ \E sl \in MoveSlots, s \in ServiceIds : create_booking_call(p, 1, sl[1], sl[2], s)

RescheduleCallMove(p) ==
    /\ Len(history) < MaxMoveLen
    /\ \E b \in bookings, sl \in MoveSlots :
          reschedule_booking_call(p, b.user, b.id, sl[1], sl[2])

NextMove ==
    \E p \in {1} :
          \/ CreateCallMove(p)
          \/ create_booking_begin(p)
          \/ create_booking_check(p)
          \/ create_booking_insert(p)
          \/ create_booking_record(p, TRUE)
          \/ create_booking_schedule(p, TRUE)
          \/ create_booking_log(p, TRUE)
          \/ RescheduleCallMove(p)
          \/ reschedule_booking_begin(p)
          \/ reschedule_booking_check(p)
          \/ reschedule_booking_update(p)
          \/ reschedule_booking_record(p, TRUE)
          \/ reschedule_booking_schedule(p, TRUE)
          \/ reschedule_booking_log(p, TRUE)
          \/ call_completed(p)

SpecMove == InitTime /\ [][NextMove]_vars

----------------------------------------------------------------------------
(* SpecRestore: the process starts at noon of day 0 against a bookings table
   drawn by Init, and restore_reminders runs its loop, with a batch size and
   with failing bookings chosen by the run; the process may start again. *)

MaxRestoreRows == 3     \* SpecRestore: the table holds up to this many rows
MaxBatchSize == 3       \* SpecRestore: batch_size is 1..MaxBatchSize

\* Slots around the clock: over and its feedback time passed; over with the
\* feedback still ahead; exactly 24 hours ahead; 32 hours ahead.
RestoreSlots ==
    <<<<0, strptime_HM(8, 0)>>, <<0, strptime_HM(11, 0)>>,
      <<1, strptime_HM(12, 0)>>, <<1, strptime_HM(20, 0)>>>>

\* Tables of n rows with ids 1..n, each row in a slot of its own
RestoreTables ==
    UNION {{ {Row(id, RestoreSlots[f[id]][1], RestoreSlots[f[id]][2], 1, 1, 60) : id \in 1..n} :
              f \in {g \in [1..n -> DOMAIN RestoreSlots] :
                        \A x, y \in 1..n : x # y => g[x] # g[y]} } :
           n \in 0..MaxRestoreRows}

InitRestore ==
    /\ bookings \in RestoreTables
    /\ blocked = {}
    /\ nextId = Cardinality(bookings) + 1
    /\ lock = 0
    /\ calls = [p \in {1} |-> NoCall]
    /\ confirm_kb = {}
    /\ now = Noon0
    /\ probe = [kind |-> "none"]
    /\ history = <<>>
    /\ jobs = {}
    /\ services = Services
    /\ retry = NoRetry
    /\ sent = <<>>
    /\ executor = NoExecutor

RestoreCall ==
    \E batch_size \in 1..MaxBatchSize, failing \in SUBSET (1..MaxRestoreRows) :
        restore_reminders_begin(batch_size, failing)

\* The loop as one action, for the fairness condition
restore_reminders_loop == restore_reminders_batch \/ restore_reminders_booking

NextRestore ==
    \/ RestoreCall
    \/ restore_reminders_batch
    \/ restore_reminders_booking

\* The loop is one coroutine without an await inside: once started it runs on.
SpecRestore == InitRestore /\ [][NextRestore]_vars /\ WF_vars(restore_reminders_loop)

----------------------------------------------------------------------------
(* SpecExecutor: the process has started at 08:00 of day 0 with two bookings
   of day 1 in the table; the clock moves hour by hour, the scheduler submits
   every job that is due at once, and a job in the worker may take any time. *)

MaxExecutorHours == 4   \* SpecExecutor: the clock stops this many hours after the start

\* Bookings at 10:00 and 11:00 of day 1: their reminders are due at 10:00 and
\* 11:00 of day 0.
ExecutorRows ==
    {Row(1, 1, strptime_HM(10, 0), 1, 1, 60), Row(2, 1, strptime_HM(11, 0), 1, 1, 60)}

InitExecutor ==
    /\ bookings = ExecutorRows
    /\ blocked = {}
    /\ nextId = 3
    /\ lock = 0
    /\ calls = [p \in {1} |-> NoCall]
    /\ confirm_kb = {}
    /\ now = RemindStart
    /\ probe = [kind |-> "none"]
    /\ history = <<>>
    /\ jobs = restore_rows(setup_reminder_jobs({}, RemindStart), ExecutorRows, RemindStart)
    /\ services = Services
    /\ retry = NoRetry
    /\ sent = <<>>
    /\ executor = NoExecutor

\* An hour passes.  The scheduler has submitted what was due and a free worker
\* has taken what was waiting; a job in the worker may still be running.
executor_clock_hour ==
    /\ \A j \in jobs : j.run_date > now
    /\ ~(executor.running = {} /\ executor.queue # <<>>)
    /\ now + 60 <= RemindStart + MaxExecutorHours * 60
    /\ now' = now + 60
    /\ UNCHANGED <<bookings, blocked, nextId, lock, calls, confirm_kb, probe,
                   history, jobs, services, retry, sent, executor>>

NextExecutor ==
    \/ executor_clock_hour
    \/ process_jobs
    \/ executor_start
    \/ executor_finish

SpecExecutor == InitExecutor /\ [][NextExecutor]_vars

----------------------------------------------------------------------------
(* SpecService: create_booking against service catalogs drawn by Init, given a
   service id or none, with follow-up steps that may raise. *)

MaxServiceId == 2       \* SpecService: creates start only while nextId <= MaxServiceId

\* A service of the catalog
Service(id, duration_minutes, is_active, display_order) ==
    [id |-> id, duration_minutes |-> duration_minutes, is_active |-> is_active,
     display_order |-> display_order]

\* Catalogs: empty; two active services; the first in display order inactive;
\* none active; the display order against the order of the ids.
Catalogs ==
    {{}, Services,
     {Service(1, 60, FALSE, 1), Service(2, 90, TRUE, 2)},
     {Service(1, 60, FALSE, 1), Service(2, 90, FALSE, 2)},
     {Service(1, 60, TRUE, 2), Service(2, 90, TRUE, 1)}}

\* Service ids a caller passes: none, the two of the catalogs, one of no catalog
ServiceArgs == {NoServiceId, 1, 2, 3}

InitService ==
    /\ bookings = {}
    /\ blocked = {}
    /\ nextId = 1
    /\ lock = 0
    /\ calls = [p \in {1} |-> NoCall]
    /\ confirm_kb = {}
    /\ now = Noon0
    /\ probe = [kind |-> "none"]
    /\ history = <<>>
    /\ jobs = {}
    /\ services \in Catalogs
    /\ retry = NoRetry
    /\ sent = <<>>
    /\ executor = NoExecutor

CreateCallService(p) ==
    /\ nextId <= MaxServiceId
    /\ \E u \in Users, t \in EveningTimes, s \in ServiceArgs :
          create_booking_call(p, u, 1, t, s)

NextService ==
    \E p \in {1} :
          \/ CreateCallService(p)
          \/ create_booking_begin(p)
          \/ create_booking_check(p)
          \/ create_booking_insert(p)
          \/ \E ok \in BOOLEAN : create_booking_record(p, ok)
          \/ \E ok \in BOOLEAN : create_booking_schedule(p, ok)
          \/ \E ok \in BOOLEAN : create_booking_log(p, ok)
          \/ call_completed(p)

SpecService == InitService /\ [][NextService]_vars

----------------------------------------------------------------------------
(* SpecRetry: calls of the decorated create_booking, with every fault a run of
   it can meet. *)

MaxRetries == 3         \* SpecRetry: max_retries is drawn from 0..MaxRetries
MaxBaseDelay == 2       \* SpecRetry: base_delay is drawn from 1..MaxBaseDelay
MaxBackoff == 3         \* SpecRetry: backoff is drawn from 2..MaxBackoff

RetryCall ==
    \E max_retries \in 0..MaxRetries, base_delay \in 1..MaxBaseDelay, backoff \in 2..MaxBackoff :
        db_retry_call(max_retries, base_delay, backoff)

NextRetry ==
    \/ RetryCall
    \/ \E fault \in Faults : db_retry_attempt(fault)
    \/ db_retry_sleep
    \/ db_retry_done

SpecRetry == Init /\ [][NextRetry]_vars

----------------------------------------------------------------------------
(* Claims about the race of create_booking calls (SpecRace) *)

\* The half-open intervals [time, time + dur) of two calls or rows share an instant.
Overlapping(x, y) ==
    /\ x.date = y.date
    /\ x.time < y.time + y.dur
    /\ y.time < x.time + x.dur

Returned(p, op) == calls[p].op = op /\ calls[p].pc = "done"

----------------------------------------------------------------------------
(* Claims about the bookings table (Spec) *)

\* C2: in every reachable state no two rows of bookings on the same date have
\* overlapping half-open intervals [time, time + duration_minutes).
C2_NoOverlappingBookings ==
    \A a, b \in bookings : a.id # b.id => ~Overlapping(a, b)

\* A 90-minute booking at 20:00 stands, a create_booking at 21:00 on that date
\* has been refused, and a reschedule has moved a row.
C2_Witness ==
    /\ \E b \in bookings : b.time = strptime_HM(20, 0) /\ b.dur = 90
    /\ \E p, q \in DOMAIN calls :
          /\ Returned(p, "create")
          /\ calls[p].time = strptime_HM(21, 0)
          /\ calls[p].res = ERROR_SLOT_TAKEN
          /\ Returned(q, "reschedule")
          /\ calls[q].res = "True"

\* C5 as stated: no committed booking ends after the end of the working day.
C5_EndsWithinWorkingDay ==
    \A b \in bookings : b.time + b.dur <= strptime_HM(WORK_HOURS_END, 0)

\* C7: a step of reschedule_booking that returns False leaves the bookings
\* table as it was; the only step of a reschedule that changes the table is
\* the one that returns True, and it moves exactly the call's row to the new
\* date and time; and when another row overlaps the new interval or the new
\* start is blocked, the check returns False.
C7_FailedRescheduleChangesNothing ==
    [][\A p \in DOMAIN calls :
          (calls[p].op = "reschedule" /\ calls'[p] # calls[p]) =>
             /\ calls'[p].res = "False" => bookings' = bookings
             /\ bookings' # bookings =>
                   /\ calls'[p].pc = "done" /\ calls'[p].res = "True"
                   /\ \E b \in bookings :
                         /\ b.id = calls[p].bid
                         /\ bookings' = (bookings \ {b}) \cup
                               {[b EXCEPT !.date = calls[p].date,
                                          !.time = calls[p].time]}
             /\ (/\ calls[p].pc = "check"
                 /\ \E b \in bookings :
                       /\ b.id = calls[p].bid
                       /\ \/ \E o \in bookings :
                                /\ o.id # b.id
                                /\ Overlapping(o, [date |-> calls[p].date,
                                                   time |-> calls[p].time,
                                                   dur |-> b.dur])
                          \/ \E s \in blocked :
                                s.date = calls[p].date /\ s.time = calls[p].time)
                => calls'[p].pc = "done" /\ calls'[p].res = "False"
      ]_vars

\* A reschedule from day 2 back to 20:00 of day 1 has returned False because
\* the row's interval would run into another booking that starts at 21:00,
\* and the row is still on day 2.
C7_Witness ==
    \E p \in DOMAIN calls, b, o \in bookings :
        /\ Returned(p, "reschedule")
        /\ calls[p].res = "False"
        /\ b.id = calls[p].bid
        /\ o.id # b.id
        /\ calls[p].time # o.time
        /\ Overlapping(o, calls[p])
        /\ b.date # calls[p].date

----------------------------------------------------------------------------
(* Claims about blocked slots (SpecBlock) *)

\* C3 as stated: no booking's interval overlaps the one-hour interval of a
\* blocked slot on the same date.
C3_NoBookingOverlapsBlock ==
    \A b \in bookings, s \in blocked :
        ~Overlapping(b, [date |-> s.date, time |-> s.time, dur |-> 60])

\* C10 as stated: a forced block succeeds unless the slot is already blocked,
\* and its list of displaced users has exactly one entry (user id, display
\* name, prior date and time) for every booking the block removed and no
\* other entry.
C10_DisplacedUsersAreTheRemoved ==
    \A p \in DOMAIN calls :
        Returned(p, "block") =>
            /\ calls[p].res = "False" =>
                  \E s \in blocked : s.date = calls[p].date /\ s.time = calls[p].time
            /\ calls[p].cancelled_users =
                  {[user_id |-> b.user, username |-> b.username,
                    date |-> b.date, time |-> b.time] : b \in calls[p].removed}

----------------------------------------------------------------------------
(* Claims about the availability check and the cancellation window (SpecCheck) *)

----------------------------------------------------------------------------
(* Claims about moving time (SpecLimit, SpecCancel) *)

\* get_user_bookings: a booking is a future booking while booking_dt >= now
future_bookings(user_id) ==
    {b \in bookings : b.user = user_id /\ localize(b.date, b.time) >= now}

\* C6 as stated: in every reachable state a user holds at most
\* MAX_BOOKINGS_PER_USER future bookings.
C6_AtMostMaxFutureBookings ==
    \A u \in Users : Cardinality(future_bookings(u)) <= MAX_BOOKINGS_PER_USER

\* C8 as stated: a self-service cancellation never deletes a booking when
\* fewer than CANCELLATION_HOURS hours remain at the moment of the deletion.
C8_NoCancelInsideWindow ==
    \A p \in DOMAIN calls :
        Returned(p, "cancel") =>
            \A b \in calls[p].removed :
                localize(b.date, b.time) - calls[p].clock >= CANCELLATION_HOURS * 60

----------------------------------------------------------------------------
(* Claims about the history and the scheduler's jobs *)

\* The 'cancel' entries of history for a booking id, by position
cancel_entries(booking_id) ==
    {i \in DOMAIN history :
        history[i].action = "cancel" /\ history[i].booking_id = booking_id}

\* C11 as stated: once a cancel_booking call has deleted and recorded, the row
\* is gone and history holds exactly one 'cancel' entry for the booking id,
\* with the date, time and service the row had when it was deleted.
C11_OneCancelEntryOfTheDeletedRow ==
    \A p \in DOMAIN calls :
        (calls[p].op = "cancel" /\ calls[p].pc \in {"jobs", "log", "returned"}) =>
            LET id == (CHOOSE b \in calls[p].sel : TRUE).id IN
            /\ ~\E b \in bookings : b.id = id
            /\ Cardinality(cancel_entries(id)) = 1
            /\ \A i \in cancel_entries(id), b \in calls[p].removed :
                  /\ history[i].old_date = b.date
                  /\ history[i].old_time = b.time
                  /\ history[i].old_service_id = b.service

\* The jobs of the store that belong to a booking id
jobs_of(js, booking_id) ==
    {j \in js : j.id \in {reminder_id(booking_id), feedback_id(booking_id)}}

\* C12: once cancel_booking has removed the jobs, it has succeeded and the job
\* store holds neither reminder_<id> nor feedback_<id> for the cancelled
\* booking, whatever creates and reschedules came before and whether or not a
\* reminder job was there; and while no call is in flight every job in the
\* store belongs to a row of bookings.
C12_NoJobsAfterCancel ==
    /\ \A p \in DOMAIN calls :
          (calls[p].op = "cancel" /\ calls[p].pc \in {"log", "returned"}) =>
              /\ calls[p].res = "True"
              /\ jobs_of(jobs, calls[p].bid) = {}
    /\ (\A p \in DOMAIN calls : idle(p)) =>
          \A j \in jobs : \E b \in bookings : j \in jobs_of(jobs, b.id)

\* Booking 1 was created, rescheduled twice, the second time to 13:00 of day 0
\* at noon (one hour ahead: no reminder job), and its cancel has returned True.
C12_Witness ==
    /\ now = Noon0
    /\ Len(history) = 4
    /\ history[1].action = "create"
    /\ history[2].action = "reschedule"
    /\ history[3].action = "reschedule"
    /\ history[3].new_date = 0 /\ history[3].new_time = strptime_HM(13, 0)
    /\ history[4].action = "cancel"
    /\ \A i \in 1..4 : history[i].booking_id = 1
    /\ \E p \in DOMAIN calls :
          calls[p].op = "cancel" /\ calls[p].pc = "returned" /\ calls[p].res = "True"

\* The last restore_reminders ran against the present table and clock.
restored_here ==
    probe.kind = "restore" /\ probe.rows = bookings /\ probe.clock = now

policy_jobs(rows, clock) ==
    UNION {schedule_reminder({}, b.id, b.date, b.time, clock) :
              b \in {x \in rows : localize(x.date, x.time) > clock}}

\* C14 as stated: after a restart the jobs restore_reminders registered for
\* the bookings that have not started are those the scheduling policy of
\* create and reschedule registers at that moment, the 2h and 1h fallback
\* reminders included.
C14_RestoreRegistersPolicyJobs ==
    restored_here =>
        {j \in probe.jobs :
            \E b \in bookings : /\ localize(b.date, b.time) > now
                                /\ j \in jobs_of(probe.jobs, b.id)}
        = policy_jobs(bookings, now)

\* C18 as stated: the step of reschedule_booking that returns True replaces
\* the call's row by a row that differs from it in date and time only, and
\* touches no other row.
C18_RescheduleChangesOnlyDateAndTime ==
    [][\A p \in DOMAIN calls :
          (at(p, "reschedule", "update") /\ calls'[p].res = "True") =>
              \E b \in bookings :
                  /\ b.id = calls[p].bid
                  /\ bookings' = (bookings \ {b}) \cup
                        {[b EXCEPT !.date = calls[p].date, !.time = calls[p].time]}
      ]_vars

\* C19: the scheduling step of a create or a reschedule leaves at most one
\* reminder job for the booking: at start minus 24 h if more than 24 h remain,
\* else at start minus 2 h if more than 2 h remain, else at start minus 1 h if
\* more than 1 h remains, else none.
C19_OneReminderAtLargestLead ==
    [][\A p \in DOMAIN calls :
          (/\ calls[p].op \in {"create", "reschedule"}
           /\ calls[p].pc = "jobs"
           /\ calls'[p].pc = "log") =>
              LET c == calls[p]
                  start == localize(c.date, c.time)
                  remaining == start - now
              IN {j.run_date : j \in {x \in jobs' : x.id = reminder_id(c.bid)}} =
                 IF remaining > 24 * 60 THEN {start - 24 * 60}
                 ELSE IF remaining > 2 * 60 THEN {start - 2 * 60}
                 ELSE IF remaining > 60 THEN {start - 60}
                 ELSE {}
      ]_vars

\* A reschedule to a slot exactly 24 hours ahead has registered the reminder
\* two hours before the start.
C19_Witness ==
    \E p \in DOMAIN calls :
        /\ at(p, "reschedule", "log")
        /\ localize(calls[p].date, calls[p].time) - now = 24 * 60
        /\ Job(reminder_id(calls[p].bid),
               localize(calls[p].date, calls[p].time) - 2 * 60) \in jobs

\* C20 as stated: after the scheduling step of a create or a reschedule the
\* store holds exactly one feedback job for the booking, at the appointment's
\* end (start plus duration) plus FEEDBACK_HOURS_AFTER.
C20_FeedbackAfterTheEnd ==
    \A p \in DOMAIN calls :
        (calls[p].op \in {"create", "reschedule"} /\ calls[p].pc = "log") =>
            LET c == calls[p]
                appointment_end == localize(c.date, c.time) + c.dur
            IN {j \in jobs : j.id = feedback_id(c.bid)} =
               {Job(feedback_id(c.bid), appointment_end + FEEDBACK_HOURS_AFTER * 60)}

----------------------------------------------------------------------------
(* Claims about create_booking: service resolution and follow-up (SpecService) *)

\* C15: the step that starts create_booking returns no_services when no
\* service id is given and no service is active, and service_not_available
\* when the id given is missing or inactive, in both cases without taking the
\* write lock or changing bookings, history or jobs; given no id while active
\* services exist, it goes on with the first active service in display order.
C15_ServiceResolution ==
    [][\A p \in DOMAIN calls :
          (idle(p) /\ calls'[p].op = "create") =>
              LET c == calls'[p]
                  active == {s \in services : s.is_active}
                  refused == /\ c.pc = "done"
                             /\ lock' = lock
                             /\ bookings' = bookings
                             /\ history' = history
                             /\ jobs' = jobs
              IN
              /\ (c.service_arg = NoServiceId /\ active = {}) =>
                    (refused /\ c.res = ERROR_NO_SERVICES)
              /\ (c.service_arg # NoServiceId
                    /\ ~\E s \in active : s.id = c.service_arg) =>
                    (refused /\ c.res = ERROR_SERVICE_UNAVAILABLE)
              /\ (c.service_arg = NoServiceId /\ active # {}) =>
                    /\ c.pc = "begin"
                    /\ \E s \in active :
                          /\ \A t \in active : s.display_order <= t.display_order
                          /\ c.service = s.id
                          /\ c.dur = s.duration_minutes
      ]_vars

\* A call that named an inactive service has returned service_not_available,
\* in a catalog whose other service is active.
C15_Witness ==
    \E p \in DOMAIN calls :
        /\ calls[p].op = "create"
        /\ calls[p].res = ERROR_SERVICE_UNAVAILABLE
        /\ \E s \in services : s.id = calls[p].service_arg /\ ~s.is_active
        /\ \E s \in services : s.is_active

\* C17: from the commit of create_booking on, the row it inserted stays in
\* bookings through every follow-up step, whether the step succeeds or raises.
C17_CommittedRowStays ==
    \A p \in DOMAIN calls :
        (calls[p].op = "create" /\ calls[p].bid # 0) =>
            \E b \in bookings :
                /\ b.id = calls[p].bid
                /\ b.date = calls[p].date
                /\ b.time = calls[p].time
                /\ b.user = calls[p].user

\* Every follow-up step of a create has raised: no history entry, no job, the
\* call has returned unknown_error, and the row is there.
C17_Witness ==
    \E p \in DOMAIN calls :
        /\ calls[p].op = "create"
        /\ calls[p].pc = "returned"
        /\ calls[p].res = ERROR_UNKNOWN
        /\ history = <<>>
        /\ jobs = {}
        /\ \E b \in bookings : b.id = calls[p].bid

----------------------------------------------------------------------------
(* Claims about the job store under calls in flight together (SpecHistory) *)

\* C21: in every state the store holds at most one reminder job and at most
\* one feedback job for each booking id; a registration under a key that
\* already has a job replaces that job.
C21_OneJobPerKey ==
    \A booking_id \in 1..nextId :
        /\ Cardinality({j \in jobs : j.id = reminder_id(booking_id)}) <= 1
        /\ Cardinality({j \in jobs : j.id = feedback_id(booking_id)}) <= 1

\* A create registered its jobs over those a reschedule of the same booking
\* had registered before it: the store holds the create's feedback job, and
\* the reschedule, to another slot, is past its own scheduling step.
C21_Witness ==
    \E p \in DOMAIN calls, q \in DOMAIN calls :
        /\ calls[p].op = "create" /\ calls[p].pc \in {"log", "returned"}
        /\ calls[q].op = "reschedule" /\ calls[q].pc \in {"log", "returned"}
        /\ calls[q].bid = calls[p].bid
        /\ <<calls[q].date, calls[q].time>> # <<calls[p].date, calls[p].time>>
        /\ Job(feedback_id(calls[p].bid),
               feedback_time(localize(calls[p].date, calls[p].time))) \in jobs
        /\ Cardinality(jobs_of(jobs, calls[p].bid)) = 2

----------------------------------------------------------------------------
(* Claims about the retry decorator (SpecRetry) *)

\* The last run of the wrapped function
last_outcome == retry.outcomes[Len(retry.outcomes)]

\* C22: a call that meets a transient storage error (the database is locked,
\* a timeout, the connection fails) is run again after a delay that grows by
\* the backoff factor each time, max_retries + 1 times at most, and its
\* failure reaches the caller only after the last of these runs.
C22_TransientErrorIsRetried ==
    /\ Len(retry.outcomes) <= retry.max_retries + 1
    /\ \A i \in 1..Len(retry.slept) - 1 :
          retry.slept[i + 1] = retry.slept[i] * retry.backoff
    /\ retry.pc \in {"returned", "raised"} =>
          /\ Len(retry.slept) = Len(retry.outcomes) - 1
          /\ last_outcome.fault \in TransientFaults =>
                Len(retry.outcomes) = retry.max_retries + 1

\* C23: a run that ends in a business-rule outcome (limit, slot taken,
\* uniqueness violation) is the last run of the call, and the caller gets that
\* outcome as the returned value.
C23_BusinessOutcomeNotRetried ==
    \A i \in 1..Len(retry.outcomes) :
        retry.outcomes[i].fault \in BusinessFaults =>
            /\ i = Len(retry.outcomes)
            /\ retry.pc = "returned"
            /\ retry.outcomes[i].kind = "return"
            /\ retry.result = Return(retry.outcomes[i].value)
            /\ retry.result.value[1] = FALSE

\* A uniqueness violation has been returned while retries were left, after an
\* earlier run was retried.
C23_Witness ==
    /\ retry.pc = "returned"
    /\ Len(retry.outcomes) = 2
    /\ last_outcome.fault = "integrity"
    /\ retry.attempt < retry.max_retries

----------------------------------------------------------------------------
(* Claims about create_booking under lock contention (SpecLocked) *)

\* The codes create_booking documents (lines 73-80)
ResultCodes ==
    {ERROR_SUCCESS, ERROR_NO_SERVICES, ERROR_SERVICE_UNAVAILABLE,
     ERROR_LIMIT_EXCEEDED, ERROR_SLOT_TAKEN, ERROR_UNKNOWN}

\* C24: every create_booking call that has ended, a storage error at the
\* opening of the transaction included, has returned one of the six result
\* codes; none has ended in an exception.
C24_CreateReturnsACode ==
    \A p \in DOMAIN calls :
        calls[p].op = "create" /\ calls[p].pc \in {"done", "returned", "raised"} =>
            /\ calls[p].pc # "raised"
            /\ calls[p].res \in ResultCodes

----------------------------------------------------------------------------
(* Claims about the history table and its retention sweep (SpecRetention) *)

\* The instant an ISO text stands for; a date alone is its midnight.
instant_of(text) == text[1] * MinutesPerDay + (IF Len(text) > 1 THEN text[2] ELSE 0)

\* s is t or a beginning of t
IsPrefix(s, t) == Len(s) <= Len(t) /\ SubSeq(t, 1, Len(s)) = s

\* C25: a step of create_booking, reschedule_booking or cancel_booking only
\* appends to the history and leaves every existing entry as it was; a
\* cleanup_old_history step removes the entries whose changed_at is before its
\* cutoff, and no others.
C25_HistoryAppendOnly ==
    [][\/ IsPrefix(history, history')
       \/ /\ probe'.kind = "cleanup"
          /\ probe'.rows = history
          /\ history' = SelectSeq(history,
                LAMBDA e : instant_of(e.changed_at) >= instant_of(probe'.before_date))]_vars

\* A sweep has just removed some entries and kept others, one of them written
\* at the very instant of the cutoff.
C25_Witness ==
    /\ probe.kind = "cleanup"
    /\ probe.deleted > 0
    /\ Len(history) = Len(probe.rows) - probe.deleted
    /\ \E i \in 1..Len(history) : history[i].changed_at = probe.before_date

----------------------------------------------------------------------------
(* Claims about the life of a booking id (Spec) *)

\* C26: an id that has left the bookings table never comes back: every row
\* that a step adds has an id no row has had before, whatever create,
\* reschedule and cancel calls are in flight; and a reschedule_booking call
\* that finds its id gone returns False and changes nothing.
C26_CancelledIsTerminal ==
    [][/\ \A i \in ids(bookings) : i < nextId
       /\ nextId' >= nextId
       /\ \A i \in ids(bookings') \ ids(bookings) : i >= nextId
       /\ \A p \in DOMAIN calls :
             /\ at(p, "reschedule", "check")
             /\ calls'[p].pc # "check"
             /\ calls[p].bid \notin ids(bookings)
             => calls'[p].pc = "done" /\ calls'[p].res = "False"
                /\ bookings' = bookings]_vars

\* A reschedule has returned False for an id that was cancelled while the call
\* was in flight, and a booking made after the cancellation is in the table.
C26_Witness ==
    \E p \in DOMAIN calls :
        /\ at(p, "reschedule", "done")
        /\ calls[p].res = "False"
        /\ calls[p].bid \notin ids(bookings)
        /\ \E b \in bookings : b.id > calls[p].bid

----------------------------------------------------------------------------
(* Claims about the jobs at run time (SpecRemind) *)

\* C27: a run of a reminder or feedback job whose send raises ends with the
\* job function returning; the run takes its own job out of the store and
\* leaves every other job there, to run when it is due.
C27_JobFailureSwallowed ==
    [][probe' # probe /\ probe'.kind = "job"
       => /\ probe'.outcome.kind = "return"
          /\ \A j \in jobs : j.id # probe'.id => j \in jobs'
          /\ \A j \in jobs : j.id = probe'.id /\ j.id[2] # 0 => j \notin jobs'
          /\ now' = now]_vars

\* The reminder of one booking failed to go out, and a job of another booking
\* has sent its message after that.
C27_Witness ==
    \E i \in DOMAIN sent, k \in DOMAIN sent :
        /\ i < k
        /\ ~sent[i].delivered
        /\ sent[k].delivered
        /\ sent[i].booking_id # sent[k].booking_id

\* The reminders delivered for a booking, whichever job sent them
reminders_delivered(booking_id) ==
    {i \in DOMAIN sent :
        /\ sent[i].kind \in {"reminder", "reminder_24h", "reminder_1h"}
        /\ sent[i].booking_id = booking_id
        /\ sent[i].delivered}

removed_ids == {id \in 1..(nextId - 1) : id \notin ids(bookings)}

\* No call is in flight
quiescent == \A p \in DOMAIN calls : idle(p)

\* C29: every booking row that was removed from the bookings table, by the
\* user's cancel, by the admin's block of its slot or by the clean-up of old
\* bookings, has left a history entry: once the removing call is over, the
\* history holds a "cancel" entry with the id of the row.
C29_RemovedRowLeavesHistory ==
    quiescent =>
        \A id \in removed_ids :
            \E i \in DOMAIN history :
                history[i].booking_id = id /\ history[i].action = "cancel"

\* The cancel_booking calls that have returned (True, booking_id)
cancels_succeeded(booking_id) ==
    {p \in DOMAIN calls :
        /\ calls[p].op = "cancel"
        /\ calls[p].pc = "returned"
        /\ calls[p].res = "True"
        /\ booking_id \in ids(calls[p].sel)}

\* C30: of two cancel_booking calls for the same booking that are in flight
\* together, at most one returns (True, booking_id).
C30_OneCancelSucceeds ==
    \A booking_id \in 1..nextId : Cardinality(cancels_succeeded(booking_id)) <= 1

\* The call's booking id is the id of a row of the call's user
owned(p) == \E b \in bookings : b.id = calls[p].bid /\ b.user = calls[p].user

\* C31: a reschedule_booking call whose booking id is not the id of a row of
\* the given user (another user's booking, or no booking) returns False, and
\* from its lookup to its return no booking row, no history row and no job
\* changes.
C31_RescheduleChecksOwner ==
    [][\A p \in DOMAIN calls :
          /\ (calls[p].op = "reschedule" /\ calls[p].pc = "check" /\ ~owned(p)
                  /\ calls'[p] # calls[p])
               => /\ calls'[p].pc = "done"
                  /\ calls'[p].res = "False"
                  /\ UNCHANGED <<bookings, history, jobs>>
          /\ (calls[p].op = "reschedule" /\ calls[p].res = "False"
                  /\ calls'[p] # calls[p])
               => /\ calls'[p] = NoCall
                  /\ UNCHANGED <<bookings, history, jobs>>]_vars

\* A reschedule of another user's booking has been refused at the lookup.
C31_Witness ==
    \E p \in DOMAIN calls, b \in bookings :
        /\ calls[p].op = "reschedule" /\ calls[p].pc = "done"
        /\ calls[p].res = "False" /\ calls[p].dur = 0
        /\ b.id = calls[p].bid /\ b.user # calls[p].user
        /\ jobs # {} /\ history # <<>>

carries(row, entry) == \A f \in DOMAIN entry : row[f] = entry[f]

\* The history rows of a booking id and an action
entries_of(booking_id, action) ==
    {i \in DOMAIN history :
        history[i].booking_id = booking_id /\ history[i].action = action}

\* C33: when create_booking has returned success, history holds exactly one
\* "create" entry for its booking, with the date, time and service of the
\* call; when reschedule_booking has returned True, the last history entry is
\* its "reschedule" entry, with the old and the new date and time and the
\* service on both sides; and a call that has returned a failure has left no
\* entry.
C33_OneEntryPerSuccess ==
    \A p \in DOMAIN calls :
        calls[p].pc = "returned" =>
            LET c == calls[p]
                created == create_entry(c.bid, c.user, c.date, c.time, c.service)
                moved == reschedule_entry(c.bid, c.user, c.old_date, c.old_time,
                                          c.date, c.time, c.service)
                last_is_moved == /\ history # <<>>
                                 /\ carries(history[Len(history)], moved)
            IN
            /\ (c.op = "create" /\ c.res = ERROR_SUCCESS) =>
                  /\ Cardinality(entries_of(c.bid, "create")) = 1
                  /\ \A i \in entries_of(c.bid, "create") : carries(history[i], created)
            /\ (c.op = "create" /\ c.res # ERROR_SUCCESS) =>
                  entries_of(c.bid, "create") = {}
            /\ (c.op = "reschedule" /\ c.res = "True") => last_is_moved
            /\ (c.op = "reschedule" /\ c.res # "True") => ~last_is_moved

\* restore_reminders is running
restoring == probe.kind = "restore_reminders" /\ probe.pc # "completed"

\* restore_reminders has run to its end
restore_completed == probe.kind = "restore_reminders" /\ probe.pc = "completed"

\* What holds of a run of restore_reminders at every moment and at its end
restore_safe ==
    probe.kind = "restore_reminders" =>
        /\ probe.processed_count = Len(probe.processed)
        /\ \A x, y \in DOMAIN probe.processed :
              probe.processed[x] = probe.processed[y] => x = y
        /\ \A j \in jobs : j.run_date > probe.clock
        /\ \A b \in bookings :
              (\E x \in DOMAIN probe.processed : probe.processed[x] = b.id)
                  => jobs_of(jobs, b.id) =
                         IF b.id \in probe.failing THEN {}
                         ELSE restore_booking({}, b, probe.clock)
        /\ probe.pc = "completed" =>
              /\ probe.processed_count = probe.total_bookings
              /\ {probe.processed[x] : x \in DOMAIN probe.processed} = ids(bookings)

\* C34: restore_reminders, for every table and every batch size from 1 on,
\* comes to its end; it has then handled every booking exactly once
\* (processed_count equals total_bookings); every job it registers runs after
\* now; and a booking whose handling raises gets no job while the bookings
\* after it get theirs.
C34_RestoreTerminatesAndCoversAll == [](restore_safe) /\ (restoring ~> restore_completed)

\* A run over three bookings in batches of two, the first booking failing,
\* has ended with the jobs of a later booking registered.
C34_Witness ==
    /\ restore_completed
    /\ probe.total_bookings = 3
    /\ probe.batch_size = 2
    /\ probe.failing = {probe.all_bookings[1].id}
    /\ jobs_of(jobs, probe.all_bookings[3].id) # {}

C36_SuccessIffCommitted ==
    \A p \in DOMAIN calls :
        (calls[p].op = "create" /\ calls[p].pc = "returned") =>
            (calls[p].res = ERROR_SUCCESS <=> calls[p].bid # 0)

\* C37: while no booking operation is in flight, every reminder_<id> and
\* feedback_<id> job that still awaits its run belongs to a row of bookings:
\* no such job is left for a booking id that was given out and whose row has
\* gone, whichever way it went and however the calls interleaved.
C37_NoJobWithoutBooking ==
    quiescent =>
        \A id \in removed_ids :
            \A j \in jobs_of(jobs, id) : j.run_date <= now

\* The new interval of reschedule call p, taken with the duration of row b,
\* overlaps the interval row b has now, on the same date.
overlaps_own(p, b) ==
    /\ b.id = calls[p].bid
    /\ b.user = calls[p].user
    /\ b.date = calls[p].date
    /\ intervals_conflict(calls[p].time, calls[p].time + duration_or_60(b.dur),
                          b.time, b.time + duration_or_60(b.dur))

\* C38: the availability check of reschedule_booking counts the booking being
\* moved: when the new interval overlaps the interval the booking has now, on
\* the same date, the check step ends the call with False, and a call that
\* has False for its result leaves the bookings table as it is.
C38_MoveOntoItselfRefused ==
    [][\A p \in DOMAIN calls :
          /\ (at(p, "reschedule", "check") /\ calls'[p].pc # "check"
                 /\ \E b \in bookings : overlaps_own(p, b))
               => (calls'[p].res = "False" /\ bookings' = bookings)
          /\ (calls[p].op = "reschedule" /\ calls[p].res = "False")
               => bookings' = bookings]_vars

\* A move from 20:00 to 20:30 of the same day, with nothing else booked that
\* day, has ended with False and the row is still at 20:00.
C38_Witness ==
    \E p \in DOMAIN calls :
        /\ calls[p].op = "reschedule"
        /\ calls[p].pc = "done"
        /\ calls[p].res = "False"
        /\ calls[p].time = strptime_HM(20, 30)
        /\ \E b \in bookings :
              /\ overlaps_own(p, b)
              /\ b.time = strptime_HM(20, 0)
              /\ \A o \in bookings : o.date = b.date => o = b

\* C39: a step of block_slot_with_notification that fails on a slot already
\* blocked changes neither bookings nor blocked_slots and returns (False, []):
\* the bookings it had selected and still found are in the table afterwards;
\* and a step of it that removes bookings adds the block of its slot.
C39_BlockAllOrNothing ==
    [][\A p \in DOMAIN calls :
          (at(p, "block", "write") /\ calls'[p].pc = "done") =>
              /\ ~unique_block(blocked, calls[p].date, calls[p].time) =>
                    /\ calls'[p].res = "False"
                    /\ calls'[p].cancelled_users = {}
                    /\ bookings' = bookings
                    /\ blocked' = blocked
              /\ bookings' # bookings =>
                    /\ calls'[p].res = "True"
                    /\ BlockedSlot(calls[p].date, calls[p].time) \in blocked' \ blocked]_vars

\* A call found a booking in its slot, failed on the block that was already
\* there, and the booking is still in the table.
C39_Witness ==
    \E p \in DOMAIN calls :
        /\ calls[p].op = "block"
        /\ calls[p].pc = "done"
        /\ calls[p].res = "False"
        /\ calls[p].sel # {}
        /\ calls[p].sel \subseteq bookings
        /\ BlockedSlot(calls[p].date, calls[p].time) \in blocked

====
